---- MODULE Spec2Model ----
(***************************************************************************)
(* Replication layer of the bevy/renet playground: the server tick         *)
(* (src/src/bin/server.rs), the client frame (src/src/bin/client.rs) and   *)
(* the reliable / unreliable channels between them.                        *)
(*                                                                         *)
(* Spec is the server with one client process followed end to end; the     *)
(* other connections are seen from the server only (their lobby entry,     *)
(* their Player entity, what is queued for them).  SpecClient is the       *)
(* client's frame on its own, fed any messages a peer could send.          *)
(* SpecSync (players under lost snapshots), SpecFire (projectiles to the   *)
(* end of their lifetime) and SpecFault (undecodable payloads, transport   *)
(* errors) run the same actions within a narrower environment.             *)
(* SpecSend is the sending half of the client's frame.                     *)
(*                                                                         *)
(* Positions are one coordinate in tenths of a unit.  Entity identifiers   *)
(* are bevy Entity values; an index is never handed out twice here         *)
(* because a reused index carries a new generation and so is a new value.  *)
(* Connection identifiers are the millisecond timestamps the client picks  *)
(* at start-up (client.rs:50-53), bot identifiers count up from 0          *)
(* (server.rs:214, 505-507); the two ranges do not meet.  Commands are     *)
(* deferred: a system queues them and apply_system_buffers applies them    *)
(* after the Update stage, so queries see the world of the last flush.     *)
(***************************************************************************)
EXTENDS Integers, Sequences, FiniteSets, TLC

\* ------------------------------------------------------------- bounds
MaxEntities == 3
MaxClients == 2
MaxBots == 1
MaxPackets == 2
MaxInputs == 1
MaxCollisions == 1
MaxBacklog == 0
MaxDirections == 1

\* connection ids: millisecond timestamps (client.rs:50-53), far from the bot ids
ClientIds == 101 .. (100 + MaxClients)
BotIds == 0 .. (MaxBots - 1)
\* spawn points, stated positions and cast targets the environment may pick
SpawnCoords == {10}
InputCoords == {0, 10}
CastCoords == {10}
LevelEntity == 0
Entities == 1 .. MaxEntities

\* ---------------------------------------------------- partial functions
Empty == <<>>

Put(f, k, v) == [x \in (DOMAIN f) \cup {k} |-> IF x = k THEN v ELSE f[x]]

Drop(f, k) == [x \in (DOMAIN f) \ {k} |-> f[x]]

Min(S) == CHOOSE x \in S : \A y \in S : x <= y

RECURSIVE SetToSeq(_)
SetToSeq(S) == IF S = {} THEN <<>> ELSE <<Min(S)>> \o SetToSeq(S \ {Min(S)})

Sign(x) == IF x > 0 THEN 1 ELSE IF x < 0 THEN -1 ELSE 0

\* sequences over S of length at most n
SeqsUpTo(S, n) == UNION {[1 .. k -> S] : k \in 0 .. n}

\* orderings of a finite set (HashMap iteration order is unspecified)
Orderings(S) == {s \in [1 .. Cardinality(S) -> S] : \A i, j \in DOMAIN s : i # j => s[i] # s[j]}

\* ------------------------------------------------------------ messages
\* ServerMessages, one record shape for the six variants
PlayerCreate(id, entity, translation) ==
    [type |-> "PlayerCreate", id |-> id, entity |-> entity, translation |-> translation, slot |-> 0]

PlayerRemove(id) ==
    [type |-> "PlayerRemove", id |-> id, entity |-> 0, translation |-> 0, slot |-> 0]

SpawnProjectile(entity, translation) ==
    [type |-> "SpawnProjectile", id |-> 0, entity |-> entity, translation |-> translation, slot |-> 0]

DespawnProjectile(entity) ==
    [type |-> "DespawnProjectile", id |-> 0, entity |-> entity, translation |-> 0, slot |-> 0]

SpawnSolanaBlock(entity, transform, slot) ==
    [type |-> "SpawnSolanaBlock", id |-> 0, entity |-> entity, translation |-> transform, slot |-> slot]

DespawnSolanaBlock(entity) ==
    [type |-> "DespawnSolanaBlock", id |-> 0, entity |-> entity, translation |-> 0, slot |-> 0]

\* Bytes that are no bincode encoding of the type their channel carries:
\* bincode::deserialize returns Err for them.  On the ServerMessages and
\* NetworkedEntities channels the payload is a record, on the Command and
\* Input channels a coordinate.
UndecodableMessage == [type |-> "Undecodable"]

UndecodablePayload == -1

\* ServerEvent
ClientConnected(client_id) == [type |-> "ClientConnected", client_id |-> client_id]

ClientDisconnected(client_id) == [type |-> "ClientDisconnected", client_id |-> client_id]

\* -------------------------------------------------------- server world
\* the components of one entity that the replication layer reads
PlayerBundle(client_id, translation) ==
    [kind |-> "Player", id |-> client_id, translation |-> translation,
     has_input |-> TRUE, input |-> 0, bot |-> FALSE, duration |-> 0, slot |-> 0]

BotBundle(client_id, translation) ==
    [kind |-> "Player", id |-> client_id, translation |-> translation,
     has_input |-> FALSE, input |-> 0, bot |-> TRUE, duration |-> 0, slot |-> 0]

ProjectileLifetime == 2

FireballBundle(translation) ==
    [kind |-> "Projectile", id |-> 0, translation |-> translation,
     has_input |-> FALSE, input |-> 0, bot |-> FALSE, duration |-> ProjectileLifetime, slot |-> 0]

BlockSpawnX == 0

SolanaBlockBundle(slot) ==
    [kind |-> "SolanaSlotBlock", id |-> 0, translation |-> BlockSpawnX,
     has_input |-> FALSE, input |-> 0, bot |-> FALSE, duration |-> 0, slot |-> slot]

LevelBundle ==
    [kind |-> "Level", id |-> 0, translation |-> 0,
     has_input |-> FALSE, input |-> 0, bot |-> FALSE, duration |-> 0, slot |-> 0]

\* deferred Commands
CmdSpawn(entity, bundle) == [op |-> "spawn", entity |-> entity, bundle |-> bundle, input |-> 0]

CmdDespawn(entity) == [op |-> "despawn", entity |-> entity, bundle |-> LevelBundle, input |-> 0]

CmdInsertInput(entity, input) == [op |-> "insert", entity |-> entity, bundle |-> LevelBundle, input |-> input]

\* the one client process whose state is followed; the other connection ids
\* are peers seen from the server only
Followed == Min(ClientIds)

VARIABLES
    phase,              \* position in the server tick: "pre", "update", "post", "crashed"
    ran,                \* systems of the current stage that have run
    world,              \* live server entities -> components
    next_entity,        \* next Entity the server world hands out
    commands,           \* deferred Commands of this tick, in issue order
    lobby,              \* ServerLobby.players
    bot_id,             \* BotId
    connections,        \* RenetServer: connected client ids
    server_events,      \* ServerEvents raised by the transport this tick
    removed_projectiles,\* RemovedComponents<Projectile> not yet read
    removed_blocks,     \* RemovedComponents<SolanaSlotBlock> not yet read
    recv_command,       \* per connection: Command channel, received and not drained
    recv_input,         \* per connection: Input channel, received and not drained
    outbox,             \* per connection: ServerMessages queued this tick
    sync_out,           \* NetworkedEntities message broadcast this tick, if any
    reliable,           \* ServerMessages on the way to the followed client, in order
    unreliable,         \* NetworkedEntities on the way to the followed client
    client,             \* the followed client process's replication state
    spawned,            \* history: every entity the server spawned -> its bundle
    despawned,          \* history: entities removed from the server world
    notices,            \* history: removal notices broadcast, message -> count
    inputs_seen,        \* history: ticks in which Input messages arrived so far
    collisions_seen,    \* history: collision events raised so far
    transport_errors,   \* history: endpoints whose transport has reported an error
    client_transport,   \* NetcodeClientTransport: "connecting", "connected", "disconnected"
    player_input,       \* the client's PlayerInput resource
    player_commands,    \* Events<PlayerCommand> the client's EventReader has not read
    sent_frame,         \* history (SpecSend): what the latest client frame raised and sent
    last_frame          \* history (SpecClient): input and prior state of the latest frame

vars == <<phase, ran, world, next_entity, commands, lobby, bot_id, connections,
          server_events, removed_projectiles, removed_blocks, recv_command, recv_input,
          outbox, sync_out, reliable, unreliable, client, spawned, despawned, notices,
          inputs_seen, collisions_seen, transport_errors, client_transport,
          player_input, player_commands, sent_frame, last_frame>>

serverVars == <<phase, ran, world, next_entity, commands, lobby, bot_id, connections,
                server_events, removed_projectiles, removed_blocks, recv_command,
                recv_input, outbox, sync_out, spawned, despawned, notices, inputs_seen,
                collisions_seen>>

\* ------------------------------------------------------------- schedule
\* Update-stage systems (server.rs:117, 226-236).  No ordering is declared
\* between them.  They change the set of entities through deferred Commands
\* only, so running them in one order loses nothing but the numbering of
\* fresh entities and the interleaving of messages about different
\* entities; move_players_system, whose writes to Transform the other
\* systems read, is left free to run at any point of the stage.
\* update_visualizer_system (debug builds) does not touch replication.
UpdateOrder == <<"spawn_solana_blocks", "server_update_system", "server_network_sync",
                 "update_projectiles_system", "projectile_collision_system", "spawn_bot",
                 "bot_autocast">>

UpdateSystems == {UpdateOrder[i] : i \in DOMAIN UpdateOrder} \cup {"move_players_system"}

\* PostUpdate-stage systems (server.rs:238-239)
PostUpdateSystems == {"projectile_on_removal_system", "solana_block_on_removal_system"}

TickBoundary == phase = "pre"

Earlier(system) ==
    {UpdateOrder[i] : i \in {j \in DOMAIN UpdateOrder :
        \E k \in DOMAIN UpdateOrder : UpdateOrder[k] = system /\ j < k}}

InUpdate(system) == phase = "update" /\ system \notin ran /\ Earlier(system) \subseteq ran

InPostUpdate(system) == phase = "post" /\ system \notin ran

\* ---------------------------------------------------------- RenetServer
Broadcast(message) == [msg |-> message, to |-> connections, bcast |-> TRUE]

SendMessage(client_id, message) ==
    [msg |-> message, to |-> {client_id} \cap connections, bcast |-> FALSE]

RECURSIVE Deliver(_, _)
Deliver(queues, out) ==
    IF out = <<>> THEN queues
    ELSE Deliver([c \in DOMAIN queues |->
                     IF c \in Head(out).to THEN Append(queues[c], Head(out).msg)
                     ELSE queues[c]],
                 Tail(out))

IsRemovalNotice(message) ==
    message.type \in {"PlayerRemove", "DespawnProjectile", "DespawnSolanaBlock"}

RECURSIVE CountNotices(_, _)
CountNotices(counts, out) ==
    IF out = <<>> THEN counts
    ELSE LET m == Head(out).msg
             c1 == IF Head(out).bcast /\ IsRemovalNotice(m)
                   THEN Put(counts, m, IF m \in DOMAIN counts THEN counts[m] + 1 ELSE 1)
                   ELSE counts
         IN CountNotices(c1, Tail(out))

\* ------------------------------------------------------------- entities
Players == {e \in DOMAIN world : world[e].kind = "Player"}

Replicated == {e \in DOMAIN world : world[e].kind \in {"Player", "Projectile", "SolanaSlotBlock"}}

\* Entities::contains: live, or reserved by a spawn that is still deferred
Contains(entity, cmds) ==
    \/ entity \in DOMAIN world
    \/ \E i \in DOMAIN cmds : cmds[i].op = "spawn" /\ cmds[i].entity = entity

EverConnected == {spawned[e].id : e \in {x \in DOMAIN spawned : spawned[x].kind = "Player" /\ ~spawned[x].bot}}

PendingConnects ==
    IF phase = "update" /\ "server_update_system" \notin ran
    THEN Cardinality({i \in DOMAIN server_events : server_events[i].type = "ClientConnected"})
    ELSE 0

RECURSIVE SumLen(_, _)
SumLen(f, S) == IF S = {} THEN 0 ELSE Len(f[Min(S)]) + SumLen(f, S \ {Min(S)})

\* entities still free once every accepted connection and queued command is served
Unreserved == MaxEntities - (next_entity - 1) - PendingConnects - SumLen(recv_command, ClientIds)

\* ------------------------------------------------ server_update_system
\* variant: the catch-up loop broadcasts instead of addressing the new client
RECURSIVE CatchUpBroadcast(_, _, _)
CatchUpBroadcast(out, client_id, entities) ==
    IF entities = <<>> THEN out
    ELSE CatchUpBroadcast(Append(out, Broadcast(
                              PlayerCreate(world[Head(entities)].id, Head(entities),
                                           world[Head(entities)].translation))),
                          client_id, Tail(entities))

RECURSIVE CatchUp(_, _, _)
CatchUp(out, client_id, entities) ==
    IF entities = <<>> THEN out
    ELSE CatchUp(Append(out, SendMessage(client_id,
                     PlayerCreate(world[Head(entities)].id, Head(entities),
                                  world[Head(entities)].translation))),
                 client_id, Tail(entities))

CatchUpEntities == SetToSeq(Players)

\* variant: the new player is spawned and announced but not entered in the lobby
OnClientConnectedUnlisted(acc, client_id, translation) ==
    LET player_entity == acc.next
    IN [acc EXCEPT
          !.out = Append(CatchUp(acc.out, client_id, CatchUpEntities),
                         Broadcast(PlayerCreate(client_id, player_entity, translation))),
          !.commands = Append(@, CmdSpawn(player_entity, PlayerBundle(client_id, translation))),
          !.next = player_entity + 1]

OnClientConnected(acc, client_id, translation) ==
    LET player_entity == acc.next
    IN [acc EXCEPT
          !.out = Append(CatchUp(acc.out, client_id, CatchUpEntities),
                         Broadcast(PlayerCreate(client_id, player_entity, translation))),
          !.commands = Append(@, CmdSpawn(player_entity, PlayerBundle(client_id, translation))),
          !.lobby = Put(@, client_id, player_entity),
          !.next = player_entity + 1]

\* variant: the lobby entry is read (get) instead of taken (remove)
OnClientDisconnectedKeepEntry(acc, client_id) ==
    LET known == client_id \in DOMAIN acc.lobby
    IN [acc EXCEPT
          !.commands = IF known THEN Append(@, CmdDespawn(acc.lobby[client_id])) ELSE @,
          !.panic = @ \/ (known /\ ~Contains(acc.lobby[client_id], acc.commands)),
          !.out = Append(@, Broadcast(PlayerRemove(client_id)))]

OnClientDisconnected(acc, client_id) ==
    LET known == client_id \in DOMAIN acc.lobby
    IN [acc EXCEPT
          !.lobby = IF known THEN Drop(@, client_id) ELSE @,
          !.commands = IF known THEN Append(@, CmdDespawn(acc.lobby[client_id])) ELSE @,
          !.panic = @ \/ (known /\ ~Contains(acc.lobby[client_id], acc.commands)),
          !.out = Append(@, Broadcast(PlayerRemove(client_id)))]

RECURSIVE ConnectionEvents(_, _, _)
ConnectionEvents(acc, events, spawn_at) ==
    IF events = <<>> THEN acc
    ELSE LET event == Head(events)
             a1 == IF event.type = "ClientConnected"
                   THEN OnClientConnected(acc, event.client_id, Head(spawn_at))
                   ELSE OnClientDisconnected(acc, event.client_id)
         IN ConnectionEvents(a1, Tail(events), Tail(spawn_at))

OnBasicAttack(acc, client_id, cast_at) ==
    IF client_id \in DOMAIN acc.lobby /\ acc.lobby[client_id] \in Players
    THEN LET origin == world[acc.lobby[client_id]].translation
             direction == Sign(cast_at - origin)
             translation == origin + direction * 7
             fireball_entity == acc.next
         IN [acc EXCEPT
               !.commands = Append(@, CmdSpawn(fireball_entity, FireballBundle(translation))),
               !.out = Append(@, Broadcast(SpawnProjectile(fireball_entity, translation))),
               !.next = fireball_entity + 1]
    ELSE acc

\* variant: an Input is dropped when one is already queued for the entity
OnInputFirstWins(acc, client_id, input) ==
    IF client_id \in DOMAIN acc.lobby
       /\ ~\E i \in DOMAIN acc.commands :
             acc.commands[i].op = "insert" /\ acc.commands[i].entity = acc.lobby[client_id]
    THEN [acc EXCEPT
            !.commands = Append(@, CmdInsertInput(acc.lobby[client_id], input)),
            !.panic = @ \/ ~Contains(acc.lobby[client_id], acc.commands)]
    ELSE acc

OnInput(acc, client_id, input) ==
    IF client_id \in DOMAIN acc.lobby
    THEN [acc EXCEPT
            !.commands = Append(@, CmdInsertInput(acc.lobby[client_id], input)),
            !.panic = @ \/ ~Contains(acc.lobby[client_id], acc.commands)]
    ELSE acc

\* variant: an undecodable Command is skipped
RECURSIVE DrainCommandsSkipUndecodable(_, _, _)
DrainCommandsSkipUndecodable(acc, client_id, messages) ==
    IF messages = <<>> \/ acc.panic THEN acc
    ELSE IF Head(messages) = UndecodablePayload
    THEN DrainCommandsSkipUndecodable(acc, client_id, Tail(messages))
    ELSE DrainCommandsSkipUndecodable(OnBasicAttack(acc, client_id, Head(messages)),
                                      client_id, Tail(messages))

RECURSIVE DrainCommands(_, _, _)
DrainCommands(acc, client_id, messages) ==
    IF messages = <<>> \/ acc.panic THEN acc
    ELSE IF Head(messages) = UndecodablePayload THEN [acc EXCEPT !.panic = TRUE]
    ELSE DrainCommands(OnBasicAttack(acc, client_id, Head(messages)), client_id, Tail(messages))

RECURSIVE DrainInputs(_, _, _)
DrainInputs(acc, client_id, messages) ==
    IF messages = <<>> \/ acc.panic THEN acc
    ELSE IF Head(messages) = UndecodablePayload THEN [acc EXCEPT !.panic = TRUE]
    ELSE DrainInputs(OnInput(acc, client_id, Head(messages)), client_id, Tail(messages))

RECURSIVE DrainClients(_, _)
DrainClients(acc, clients) ==
    IF clients = <<>> THEN acc
    ELSE LET c == Head(clients)
             a1 == DrainCommands(acc, c, recv_command[c])
             a2 == DrainInputs(a1, c, recv_input[c])
         IN DrainClients(a2, Tail(clients))

ServerUpdate(spawn_at, clients) ==
    DrainClients(
        ConnectionEvents([lobby |-> lobby, commands |-> commands, out |-> <<>>,
                          next |-> next_entity, panic |-> FALSE],
                         server_events, spawn_at),
        clients)

server_update_system ==
    /\ InUpdate("server_update_system")
    /\ \E spawn_at \in [1 .. Len(server_events) -> SpawnCoords], clients \in Orderings(connections) :
         LET r == ServerUpdate(spawn_at, clients)
         IN /\ lobby' = r.lobby
            /\ commands' = r.commands
            /\ next_entity' = r.next
            /\ outbox' = Deliver(outbox, r.out)
            /\ notices' = CountNotices(notices, r.out)
            /\ recv_command' = [c \in ClientIds |->
                                   IF c \in connections /\ ~r.panic THEN <<>> ELSE recv_command[c]]
            /\ recv_input' = [c \in ClientIds |->
                                 IF c \in connections /\ ~r.panic THEN <<>> ELSE recv_input[c]]
            /\ IF r.panic
               THEN phase' = "crashed" /\ ran' = ran
               ELSE phase' = phase /\ ran' = ran \cup {"server_update_system"}
    /\ UNCHANGED <<world, bot_id, connections, server_events,
                   removed_projectiles, removed_blocks, sync_out,
                   reliable, unreliable, client, spawned, despawned,
                   inputs_seen, collisions_seen, transport_errors,
                   client_transport, player_input, player_commands,
                   sent_frame, last_frame>>

\* -------------------------------------------------- server_network_sync
\* variant: the position an entity was spawned at instead of its Transform
RECURSIVE TranslationsAtSpawn(_)
TranslationsAtSpawn(entities) ==
    IF entities = <<>> THEN <<>>
    ELSE <<spawned[Head(entities)].translation>> \o TranslationsAtSpawn(Tail(entities))

RECURSIVE Translations(_)
Translations(entities) ==
    IF entities = <<>> THEN <<>>
    ELSE <<world[Head(entities)].translation>> \o Translations(Tail(entities))

\* variant: the query lacks With<Player>
SyncEntitiesNoPlayers == SetToSeq(Replicated \ Players)

SyncEntities == SetToSeq(Replicated)

NetworkedEntities(entities, translations) == [entities |-> entities, translations |-> translations]

server_network_sync ==
    /\ InUpdate("server_network_sync")
    /\ sync_out' = <<NetworkedEntities(SyncEntities, Translations(SyncEntities))>>
    /\ ran' = ran \cup {"server_network_sync"}
    /\ UNCHANGED <<phase, world, next_entity, commands, lobby, bot_id,
                   connections, server_events, removed_projectiles,
                   removed_blocks, recv_command, recv_input, outbox,
                   reliable, unreliable, client, spawned, despawned,
                   notices, inputs_seen, collisions_seen,
                   transport_errors, client_transport, player_input,
                   player_commands, sent_frame, last_frame>>

\* -------------------------------------------------- move_players_system
MovePlayer(e) ==
    IF world[e].kind = "Player" /\ world[e].has_input
    THEN [world[e] EXCEPT !.translation = world[e].input]
    ELSE world[e]

move_players_system ==
    /\ InUpdate("move_players_system")
    /\ world' = [e \in DOMAIN world |-> MovePlayer(e)]
    /\ ran' = ran \cup {"move_players_system"}
    /\ UNCHANGED <<phase, next_entity, commands, lobby, bot_id,
                   connections, server_events, removed_projectiles,
                   removed_blocks, recv_command, recv_input, outbox,
                   sync_out, reliable, unreliable, client, spawned,
                   despawned, notices, inputs_seen, collisions_seen,
                   transport_errors, client_transport, player_input,
                   player_commands, sent_frame, last_frame>>

\* -------------------------------------------- update_projectiles_system
Projectiles == {e \in DOMAIN world : world[e].kind = "Projectile"}

\* variant: the duration timer is paused
TickDurationPaused(e) == world[e]

TickDuration(e) ==
    IF world[e].kind = "Projectile" /\ world[e].duration > 0
    THEN [world[e] EXCEPT !.duration = @ - 1]
    ELSE world[e]

RECURSIVE DespawnAll(_, _)
DespawnAll(cmds, entities) ==
    IF entities = <<>> THEN cmds
    ELSE DespawnAll(Append(cmds, CmdDespawn(Head(entities))), Tail(entities))

update_projectiles_system ==
    /\ InUpdate("update_projectiles_system")
    /\ world' = [e \in DOMAIN world |-> TickDuration(e)]
    /\ commands' = DespawnAll(commands, SetToSeq({e \in Projectiles : TickDuration(e).duration = 0}))
    /\ ran' = ran \cup {"update_projectiles_system"}
    /\ UNCHANGED <<phase, next_entity, lobby, bot_id, connections,
                   server_events, removed_projectiles, removed_blocks,
                   recv_command, recv_input, outbox, sync_out, reliable,
                   unreliable, client, spawned, despawned, notices,
                   inputs_seen, collisions_seen, transport_errors,
                   client_transport, player_input, player_commands,
                   sent_frame, last_frame>>

\* ------------------------------------------ projectile_collision_system
CollisionEvents ==
    {[started |-> s, entity1 |-> e1, entity2 |-> e2] :
        s \in BOOLEAN, e1 \in DOMAIN world, e2 \in (DOMAIN world)} \
    {[started |-> s, entity1 |-> e, entity2 |-> e] : s \in BOOLEAN, e \in DOMAIN world}

IsProjectile(e) == e \in DOMAIN world /\ world[e].kind = "Projectile"

IsSolanaSlotBlock(e) == e \in DOMAIN world /\ world[e].kind = "SolanaSlotBlock"

OnCollision(cmds, event) ==
    IF event.started
    THEN LET c1 == IF IsProjectile(event.entity1) /\ IsSolanaSlotBlock(event.entity1)
                   THEN Append(cmds, CmdDespawn(event.entity2))
                   ELSE cmds
         IN IF IsProjectile(event.entity2) /\ IsSolanaSlotBlock(event.entity1)
            THEN Append(c1, CmdDespawn(event.entity1))
            ELSE c1
    ELSE cmds

RECURSIVE Collisions(_, _)
Collisions(cmds, events) ==
    IF events = <<>> THEN cmds
    ELSE Collisions(OnCollision(cmds, Head(events)), Tail(events))

projectile_collision_system ==
    /\ InUpdate("projectile_collision_system")
    /\ \E collision_events \in SeqsUpTo(CollisionEvents, MaxCollisions - collisions_seen) :
         /\ commands' = Collisions(commands, collision_events)
         /\ collisions_seen' = collisions_seen + Len(collision_events)
    /\ ran' = ran \cup {"projectile_collision_system"}
    /\ UNCHANGED <<phase, world, next_entity, lobby, bot_id, connections,
                   server_events, removed_projectiles, removed_blocks,
                   recv_command, recv_input, outbox, sync_out, reliable,
                   unreliable, client, spawned, despawned, notices,
                   inputs_seen, transport_errors, client_transport,
                   player_input, player_commands, sent_frame, last_frame>>

\* ------------------------------------------------------------ spawn_bot
SpawnBot(translation) ==
    LET client_id == bot_id
        player_entity == next_entity
    IN [bot_id |-> bot_id + 1,
        commands |-> Append(commands, CmdSpawn(player_entity, BotBundle(client_id, translation))),
        lobby |-> Put(lobby, client_id, player_entity),
        out |-> <<Broadcast(PlayerCreate(client_id, player_entity, translation))>>,
        next |-> player_entity + 1]

spawn_bot ==
    /\ InUpdate("spawn_bot")
    /\ \/ /\ bot_id < MaxBots
          /\ Unreserved >= 1
          /\ \E translation \in SpawnCoords :
               LET r == SpawnBot(translation)
               IN /\ bot_id' = r.bot_id
                  /\ commands' = r.commands
                  /\ lobby' = r.lobby
                  /\ next_entity' = r.next
                  /\ outbox' = Deliver(outbox, r.out)
       \/ UNCHANGED <<bot_id, commands, lobby, next_entity, outbox>>
    /\ ran' = ran \cup {"spawn_bot"}
    /\ UNCHANGED <<phase, world, connections, server_events,
                   removed_projectiles, removed_blocks, recv_command,
                   recv_input, sync_out, reliable, unreliable, client,
                   spawned, despawned, notices, inputs_seen,
                   collisions_seen, transport_errors, client_transport,
                   player_input, player_commands, sent_frame, last_frame>>

\* --------------------------------------------------------- bot_autocast
Bots == {e \in Players : world[e].bot}

\* x of Vec2::from_angle(PI / 4 * i), in tenths
DirectionX(i) ==
    CASE i = 0 -> 10 [] i = 1 -> 7 [] i = 2 -> 0 [] i = 3 -> -7
      [] i = 4 -> -10 [] i = 5 -> -7 [] i = 6 -> 0 [] i = 7 -> 7

\* the directions one cast fans out to: the first MaxDirections of the code's 8
CastDirections == 0 .. (Min({MaxDirections, 8}) - 1)

RECURSIVE CastFireballs(_, _, _)
CastFireballs(acc, origin, i) ==
    IF i \notin CastDirections THEN acc
    ELSE LET translation == origin + DirectionX(i)
             fireball_entity == acc.next
         IN CastFireballs(
                [commands |-> Append(acc.commands,
                                     CmdSpawn(fireball_entity, FireballBundle(translation))),
                 out |-> Append(acc.out, Broadcast(SpawnProjectile(fireball_entity, translation))),
                 next |-> fireball_entity + 1],
                origin, i + 1)

RECURSIVE BotAutocast(_, _)
BotAutocast(acc, casting) ==
    IF casting = <<>> THEN acc
    ELSE BotAutocast(CastFireballs(acc, world[Head(casting)].translation, 0), Tail(casting))

bot_autocast ==
    /\ InUpdate("bot_autocast")
    /\ \E casting \in SUBSET Bots :     \* the bots whose auto_cast timer just finished
         /\ Cardinality(casting) * Cardinality(CastDirections) <= Unreserved
         /\ LET r == BotAutocast([commands |-> commands, out |-> <<>>, next |-> next_entity],
                                 SetToSeq(casting))
            IN /\ commands' = r.commands
               /\ next_entity' = r.next
               /\ outbox' = Deliver(outbox, r.out)
    /\ ran' = ran \cup {"bot_autocast"}
    /\ UNCHANGED <<phase, world, lobby, bot_id, connections,
                   server_events, removed_projectiles, removed_blocks,
                   recv_command, recv_input, sync_out, reliable,
                   unreliable, client, spawned, despawned, notices,
                   inputs_seen, collisions_seen, transport_errors,
                   client_transport, player_input, player_commands,
                   sent_frame, last_frame>>

\* -------------------------------------------------- spawn_solana_blocks
Slots == {1}

\* variant: the message carries the slot after the one the block is tagged with
SpawnSolanaBlocksNextSlot(slot) ==
    LET entity == next_entity
    IN [commands |-> Append(commands, CmdSpawn(entity, SolanaBlockBundle(slot))),
        out |-> <<Broadcast(SpawnSolanaBlock(entity, BlockSpawnX, slot + 1))>>,
        next |-> entity + 1]

\* one Solana entity with faucet_on is spawned at start-up (server.rs:121-127)
SpawnSolanaBlocks(slot) ==
    LET entity == next_entity
    IN [commands |-> Append(commands, CmdSpawn(entity, SolanaBlockBundle(slot))),
        out |-> <<Broadcast(SpawnSolanaBlock(entity, BlockSpawnX, slot))>>,
        next |-> entity + 1]

spawn_solana_blocks ==
    /\ InUpdate("spawn_solana_blocks")
    /\ \/ \* the timer just finished and get_epoch_info() answered
          /\ Unreserved >= 1
          /\ \E slot \in Slots :
               LET r == SpawnSolanaBlocks(slot)
               IN /\ commands' = r.commands
                  /\ next_entity' = r.next
                  /\ outbox' = Deliver(outbox, r.out)
          /\ ran' = ran \cup {"spawn_solana_blocks"}
          /\ phase' = phase
       \/ \* the timer just finished and get_epoch_info() failed: unwrap panics
          /\ phase' = "crashed"
          /\ UNCHANGED <<commands, next_entity, outbox, ran>>
       \/ \* the timer did not finish
          /\ ran' = ran \cup {"spawn_solana_blocks"}
          /\ UNCHANGED <<commands, next_entity, outbox, phase>>
    /\ UNCHANGED <<world, lobby, bot_id, connections, server_events,
                   removed_projectiles, removed_blocks, recv_command,
                   recv_input, sync_out, reliable, unreliable, client,
                   spawned, despawned, notices, inputs_seen,
                   collisions_seen, transport_errors, client_transport,
                   player_input, player_commands, sent_frame, last_frame>>

\* ------------------------------------------------- apply_system_buffers
ApplyCommand(acc, cmd) ==
    IF cmd.op = "spawn"
    THEN [acc EXCEPT !.world = Put(@, cmd.entity, cmd.bundle),
                     !.spawned = Put(@, cmd.entity, cmd.bundle)]
    ELSE IF cmd.op = "despawn"
    THEN IF cmd.entity \in DOMAIN acc.world
         THEN LET kind == acc.world[cmd.entity].kind
              IN [acc EXCEPT
                    !.world = Drop(@, cmd.entity),
                    !.despawned = @ \cup {cmd.entity},
                    !.removed_projectiles =
                        IF kind = "Projectile" THEN Append(@, cmd.entity) ELSE @,
                    !.removed_blocks =
                        IF kind = "SolanaSlotBlock" THEN Append(@, cmd.entity) ELSE @]
         ELSE acc     \* already despawned: a warning, nothing else
    ELSE IF cmd.entity \in DOMAIN acc.world
         THEN [acc EXCEPT !.world[cmd.entity].input = cmd.input,
                          !.world[cmd.entity].has_input = TRUE]
         ELSE [acc EXCEPT !.panic = TRUE]

RECURSIVE ApplyCommands(_, _)
ApplyCommands(acc, cmds) ==
    IF cmds = <<>> \/ acc.panic THEN acc
    ELSE ApplyCommands(ApplyCommand(acc, Head(cmds)), Tail(cmds))

apply_system_buffers ==
    /\ phase = "update"
    /\ ran = UpdateSystems
    /\ LET r == ApplyCommands([world |-> world, spawned |-> spawned, despawned |-> despawned,
                               removed_projectiles |-> removed_projectiles,
                               removed_blocks |-> removed_blocks, panic |-> FALSE],
                              commands)
       IN /\ world' = r.world
          /\ spawned' = r.spawned
          /\ despawned' = r.despawned
          /\ removed_projectiles' = r.removed_projectiles
          /\ removed_blocks' = r.removed_blocks
          /\ phase' = IF r.panic THEN "crashed" ELSE "post"
    /\ commands' = <<>>
    /\ ran' = {}
    /\ UNCHANGED <<next_entity, lobby, bot_id, connections, server_events,
                   recv_command, recv_input, outbox, sync_out, reliable,
                   unreliable, client, notices, inputs_seen,
                   collisions_seen, transport_errors, client_transport,
                   player_input, player_commands, sent_frame, last_frame>>

\* ------------------------------------------------------- removal systems
RECURSIVE DespawnProjectileNotices(_)
DespawnProjectileNotices(entities) ==
    IF entities = <<>> THEN <<>>
    ELSE <<Broadcast(DespawnProjectile(Head(entities)))>> \o DespawnProjectileNotices(Tail(entities))

projectile_on_removal_system ==
    /\ InPostUpdate("projectile_on_removal_system")
    /\ LET out == DespawnProjectileNotices(removed_projectiles)
       IN /\ outbox' = Deliver(outbox, out)
          /\ notices' = CountNotices(notices, out)
    /\ removed_projectiles' = <<>>
    /\ ran' = ran \cup {"projectile_on_removal_system"}
    /\ UNCHANGED <<phase, world, next_entity, commands, lobby, bot_id,
                   connections, server_events, removed_blocks,
                   recv_command, recv_input, sync_out, reliable,
                   unreliable, client, spawned, despawned, inputs_seen,
                   collisions_seen, transport_errors, client_transport,
                   player_input, player_commands, sent_frame, last_frame>>

\* variant: removed blocks are drained without a notice
SilentDespawnSolanaBlock(entities) == <<>>

RECURSIVE DespawnSolanaBlockNotices(_)
DespawnSolanaBlockNotices(entities) ==
    IF entities = <<>> THEN <<>>
    ELSE <<Broadcast(DespawnSolanaBlock(Head(entities)))>> \o DespawnSolanaBlockNotices(Tail(entities))

solana_block_on_removal_system ==
    /\ InPostUpdate("solana_block_on_removal_system")
    /\ LET out == DespawnSolanaBlockNotices(removed_blocks)
       IN /\ outbox' = Deliver(outbox, out)
          /\ notices' = CountNotices(notices, out)
    /\ removed_blocks' = <<>>
    /\ ran' = ran \cup {"solana_block_on_removal_system"}
    /\ UNCHANGED <<phase, world, next_entity, commands, lobby, bot_id,
                   connections, server_events, removed_projectiles,
                   recv_command, recv_input, sync_out, reliable,
                   unreliable, client, spawned, despawned, inputs_seen,
                   collisions_seen, transport_errors, client_transport,
                   player_input, player_commands, sent_frame, last_frame>>

\* ------------------------------------------- transport update (PreUpdate)
AllEvents == {ClientConnected(c) : c \in ClientIds} \cup {ClientDisconnected(c) : c \in ClientIds}

\* a client id is accepted while it is not connected; a client process
\* connects once (client.rs has no reconnect)
RECURSIVE ValidEvents(_, _, _)
ValidEvents(events, conns, ever) ==
    IF events = <<>> THEN TRUE
    ELSE LET c == Head(events).client_id
         IN IF Head(events).type = "ClientConnected"
            THEN c \notin conns /\ c \notin ever
                 /\ ValidEvents(Tail(events), conns \cup {c}, ever \cup {c})
            ELSE c \in conns /\ ValidEvents(Tail(events), conns \ {c}, ever)

RECURSIVE AfterEvents(_, _)
AfterEvents(events, conns) ==
    IF events = <<>> THEN conns
    ELSE AfterEvents(Tail(events),
                     IF Head(events).type = "ClientConnected"
                     THEN conns \cup {Head(events).client_id}
                     ELSE conns \ {Head(events).client_id})

Connects(events) == Cardinality({i \in DOMAIN events : events[i].type = "ClientConnected"})

\* datagrams the transport takes in during one update
Packets(events, cmds, inputs, conns) == Len(events) + SumLen(cmds, conns) + SumLen(inputs, conns)

\* the followed client keeps its frame rate: it has drained what earlier
\* ticks sent before the server ticks again
Backlogged == Followed \in connections /\ ~client.crashed /\ Len(reliable) > MaxBacklog

NetcodeUpdate ==
    /\ TickBoundary
    /\ ~Backlogged
    /\ \E events \in SeqsUpTo(AllEvents, MaxPackets) :
         /\ ValidEvents(events, connections, EverConnected)
         /\ LET conns == AfterEvents(events, connections)
            IN \E cmds \in [conns -> SeqsUpTo(CastCoords, MaxPackets - Len(events))],
                  inputs \in [conns -> SeqsUpTo(InputCoords, MaxPackets - Len(events))] :
                 /\ Packets(events, cmds, inputs, conns) <= MaxPackets
                 /\ inputs_seen + Sign(SumLen(inputs, conns)) <= MaxInputs
                 /\ inputs_seen' = inputs_seen + Sign(SumLen(inputs, conns))
                 /\ Connects(events) + SumLen(cmds, conns) <= MaxEntities - (next_entity - 1)
                 /\ connections' = conns
                 /\ server_events' = events
                 /\ recv_command' = [c \in ClientIds |-> IF c \in conns THEN cmds[c] ELSE <<>>]
                 /\ recv_input' = [c \in ClientIds |-> IF c \in conns THEN inputs[c] ELSE <<>>]
                 /\ reliable' = IF Followed \in conns THEN reliable ELSE <<>>
                 /\ unreliable' = IF Followed \in conns THEN unreliable ELSE <<>>
    /\ phase' = "update"
    /\ ran' = {}
    /\ UNCHANGED <<world, next_entity, commands, lobby, bot_id,
                   removed_projectiles, removed_blocks, outbox, sync_out,
                   client, spawned, despawned, notices, collisions_seen,
                   transport_errors, client_transport, player_input,
                   player_commands, sent_frame, last_frame>>

\* the transport flushes the send queues at the end of the tick; the
\* unreliable channel holds the latest datagram, an older one still in
\* flight counts as lost
send_packets ==
    /\ phase = "post"
    /\ ran = PostUpdateSystems
    /\ reliable' = IF Followed \in connections THEN reliable \o outbox[Followed] ELSE <<>>
    /\ unreliable' = IF Followed \in connections /\ sync_out # <<>> THEN sync_out ELSE unreliable
    /\ outbox' = [c \in ClientIds |-> <<>>]
    /\ sync_out' = <<>>
    /\ phase' = "pre"
    /\ ran' = {}
    /\ UNCHANGED <<world, next_entity, commands, lobby, bot_id,
                   connections, server_events, removed_projectiles,
                   removed_blocks, recv_command, recv_input, client,
                   spawned, despawned, notices, inputs_seen,
                   collisions_seen, transport_errors, client_transport,
                   player_input, player_commands, sent_frame, last_frame>>

\* ================================================================ client
\* local render entity
LocalBundle(kind, translation, controlled) ==
    [kind |-> kind, translation |-> translation, controlled |-> controlled]

LocalSpawn(entity, bundle) == [op |-> "spawn", entity |-> entity, bundle |-> bundle, translation |-> 0]

LocalDespawn(entity) ==
    [op |-> "despawn", entity |-> entity, bundle |-> LocalBundle("none", 0, FALSE), translation |-> 0]

LocalInsertTransform(entity, translation) ==
    [op |-> "insert", entity |-> entity, bundle |-> LocalBundle("none", 0, FALSE),
     translation |-> translation]

PlayerInfo(client_entity, server_entity) ==
    [client_entity |-> client_entity, server_entity |-> server_entity]

\* mapping: NetworkMapping, players: ClientLobby.players, world: local entities;
\* live and owner record the lifecycle messages received (history only)
ClientInit ==
    [mapping |-> Empty, players |-> Empty, world |-> Empty, next |-> 1, crashed |-> FALSE,
     live |-> {}, owner |-> Empty]

\* Entities::contains on the client world
LocalContains(cs, acc, entity) ==
    entity \in DOMAIN cs.world \/ (cs.next <= entity /\ entity < acc.next)

OnPlayerCreate(cs, acc, client_id, m) ==
    LET client_entity == acc.next
    IN [acc EXCEPT
          !.cmds = Append(@, LocalSpawn(client_entity,
                                LocalBundle("Player", m.translation, client_id = m.id))),
          !.players = Put(@, m.id, PlayerInfo(client_entity, m.entity)),
          !.mapping = Put(@, m.entity, client_entity),
          !.next = client_entity + 1,
          !.live = @ \cup {m.entity},
          !.owner = Put(@, m.entity, m.id)]

OnPlayerRemove(cs, acc, client_id, m) ==
    LET a1 == [acc EXCEPT !.live = {e \in @ : ~(e \in DOMAIN acc.owner /\ acc.owner[e] = m.id)}]
    IN IF m.id \in DOMAIN acc.players
       THEN LET info == acc.players[m.id]
            IN [a1 EXCEPT
                  !.players = Drop(@, m.id),
                  !.panic = @ \/ ~LocalContains(cs, acc, info.client_entity),
                  !.cmds = Append(@, LocalDespawn(info.client_entity)),
                  !.mapping = Drop(@, info.server_entity)]
       ELSE a1

\* variant: entry(entity).or_insert(..) instead of insert(entity, ..)
OnSpawnProjectileIfAbsent(cs, acc, client_id, m) ==
    LET projectile_entity == acc.next
    IN [acc EXCEPT
          !.cmds = Append(@, LocalSpawn(projectile_entity,
                                LocalBundle("Projectile", m.translation, FALSE))),
          !.mapping = IF m.entity \in DOMAIN @ THEN @ ELSE Put(@, m.entity, projectile_entity),
          !.next = projectile_entity + 1,
          !.live = @ \cup {m.entity},
          !.owner = Drop(@, m.entity)]

OnSpawnProjectile(cs, acc, client_id, m) ==
    LET projectile_entity == acc.next
    IN [acc EXCEPT
          !.cmds = Append(@, LocalSpawn(projectile_entity,
                                LocalBundle("Projectile", m.translation, FALSE))),
          !.mapping = Put(@, m.entity, projectile_entity),
          !.next = projectile_entity + 1,
          !.live = @ \cup {m.entity},
          !.owner = Drop(@, m.entity)]

\* variant: the mapping entry is unwrapped instead of matched
OnDespawnProjectileUnwrap(cs, acc, client_id, m) ==
    LET a1 == [acc EXCEPT !.live = @ \ {m.entity}]
    IN IF m.entity \in DOMAIN acc.mapping
       THEN [a1 EXCEPT
               !.mapping = Drop(@, m.entity),
               !.panic = @ \/ ~LocalContains(cs, acc, acc.mapping[m.entity]),
               !.cmds = Append(@, LocalDespawn(acc.mapping[m.entity]))]
       ELSE [a1 EXCEPT !.panic = TRUE]

OnDespawnProjectile(cs, acc, client_id, m) ==
    LET a1 == [acc EXCEPT !.live = @ \ {m.entity}]
    IN IF m.entity \in DOMAIN acc.mapping
       THEN [a1 EXCEPT
               !.mapping = Drop(@, m.entity),
               !.panic = @ \/ ~LocalContains(cs, acc, acc.mapping[m.entity]),
               !.cmds = Append(@, LocalDespawn(acc.mapping[m.entity]))]
       ELSE a1

OnSpawnSolanaBlock(cs, acc, client_id, m) ==
    LET solana_block_entity == acc.next
    IN [acc EXCEPT
          !.cmds = Append(@, LocalSpawn(solana_block_entity,
                                LocalBundle("SolanaSlotBlock", m.translation, FALSE))),
          !.mapping = Put(@, m.entity, solana_block_entity),
          !.next = solana_block_entity + 1,
          !.live = @ \cup {m.entity},
          !.owner = Drop(@, m.entity)]

\* variant: the local entity is despawned and the mapping entry is kept
OnDespawnSolanaBlockKeepEntry(cs, acc, client_id, m) ==
    LET a1 == [acc EXCEPT !.live = @ \ {m.entity}]
    IN IF m.entity \in DOMAIN acc.mapping
       THEN [a1 EXCEPT
               !.panic = @ \/ ~LocalContains(cs, acc, acc.mapping[m.entity]),
               !.cmds = Append(@, LocalDespawn(acc.mapping[m.entity]))]
       ELSE a1

OnDespawnSolanaBlock(cs, acc, client_id, m) ==
    LET a1 == [acc EXCEPT !.live = @ \ {m.entity}]
    IN IF m.entity \in DOMAIN acc.mapping
       THEN [a1 EXCEPT
               !.mapping = Drop(@, m.entity),
               !.panic = @ \/ ~LocalContains(cs, acc, acc.mapping[m.entity]),
               !.cmds = Append(@, LocalDespawn(acc.mapping[m.entity]))]
       ELSE a1

OnServerMessage(cs, acc, client_id, m) ==
    CASE m.type = "PlayerCreate" -> OnPlayerCreate(cs, acc, client_id, m)
      [] m.type = "PlayerRemove" -> OnPlayerRemove(cs, acc, client_id, m)
      [] m.type = "SpawnProjectile" -> OnSpawnProjectile(cs, acc, client_id, m)
      [] m.type = "DespawnProjectile" -> OnDespawnProjectile(cs, acc, client_id, m)
      [] m.type = "SpawnSolanaBlock" -> OnSpawnSolanaBlock(cs, acc, client_id, m)
      [] m.type = "DespawnSolanaBlock" -> OnDespawnSolanaBlock(cs, acc, client_id, m)

RECURSIVE DrainServerMessages(_, _, _, _)
DrainServerMessages(cs, acc, client_id, messages) ==
    IF messages = <<>> \/ acc.panic THEN acc
    ELSE IF Head(messages) = UndecodableMessage THEN [acc EXCEPT !.panic = TRUE]
    ELSE DrainServerMessages(cs, OnServerMessage(cs, acc, client_id, Head(messages)),
                             client_id, Tail(messages))

\* variant: an unmapped identifier gets a fresh local entity
OnNetworkedEntityOrSpawn(cs, acc, networked_entities, i) ==
    IF networked_entities.entities[i] \in DOMAIN acc.mapping
    THEN LET entity == acc.mapping[networked_entities.entities[i]]
         IN IF i > Len(networked_entities.translations) \/ ~LocalContains(cs, acc, entity)
            THEN [acc EXCEPT !.panic = TRUE]
            ELSE [acc EXCEPT !.cmds = Append(@, LocalInsertTransform(entity,
                                                   networked_entities.translations[i]))]
    ELSE [acc EXCEPT
            !.cmds = Append(@, LocalSpawn(acc.next,
                        LocalBundle("Projectile", networked_entities.translations[i], FALSE))),
            !.mapping = Put(@, networked_entities.entities[i], acc.next),
            !.next = acc.next + 1]

\* one (entity, translation) pair of a NetworkedEntities message
OnNetworkedEntity(cs, acc, networked_entities, i) ==
    IF networked_entities.entities[i] \in DOMAIN acc.mapping
    THEN LET entity == acc.mapping[networked_entities.entities[i]]
         IN IF i > Len(networked_entities.translations) \/ ~LocalContains(cs, acc, entity)
            THEN [acc EXCEPT !.panic = TRUE]
            ELSE [acc EXCEPT !.cmds = Append(@, LocalInsertTransform(entity,
                                                   networked_entities.translations[i]))]
    ELSE acc

RECURSIVE OnNetworkedEntities(_, _, _, _)
OnNetworkedEntities(cs, acc, networked_entities, i) ==
    IF i > Len(networked_entities.entities) \/ acc.panic THEN acc
    ELSE OnNetworkedEntities(cs, OnNetworkedEntity(cs, acc, networked_entities, i),
                             networked_entities, i + 1)

RECURSIVE DrainNetworkedEntities(_, _, _)
DrainNetworkedEntities(cs, acc, messages) ==
    IF messages = <<>> \/ acc.panic THEN acc
    ELSE IF Head(messages) = UndecodableMessage THEN [acc EXCEPT !.panic = TRUE]
    ELSE DrainNetworkedEntities(cs, OnNetworkedEntities(cs, acc, Head(messages), 1),
                                Tail(messages))

\* the client's deferred Commands, applied after the system
LocalApply(w, cmd) ==
    IF w.panic THEN w
    ELSE IF cmd.op = "spawn" THEN [w EXCEPT !.world = Put(@, cmd.entity, cmd.bundle)]
    ELSE IF cmd.op = "despawn"
    THEN [w EXCEPT !.world = IF cmd.entity \in DOMAIN @ THEN Drop(@, cmd.entity) ELSE @]
    ELSE IF cmd.entity \in DOMAIN w.world
         THEN [w EXCEPT !.world[cmd.entity].translation = cmd.translation]
         ELSE [w EXCEPT !.panic = TRUE]

RECURSIVE LocalApplyAll(_, _)
LocalApplyAll(w, cmds) ==
    IF cmds = <<>> THEN w ELSE LocalApplyAll(LocalApply(w, Head(cmds)), Tail(cmds))

\* variant: the NetworkedEntities loop runs before the ServerMessages loop
ClientSyncPlayersSnapshotsFirst(cs, client_id, messages, snapshots) ==
    LET a0 == [mapping |-> cs.mapping, players |-> cs.players, cmds |-> <<>>,
               next |-> cs.next, panic |-> FALSE, live |-> cs.live, owner |-> cs.owner]
        a1 == DrainNetworkedEntities(cs, a0, snapshots)
        a2 == DrainServerMessages(cs, a1, client_id, messages)
        w == LocalApplyAll([world |-> cs.world, panic |-> a2.panic], a2.cmds)
    IN IF w.panic
       THEN [cs EXCEPT !.crashed = TRUE]
       ELSE [mapping |-> a2.mapping, players |-> a2.players, world |-> w.world,
             next |-> a2.next, crashed |-> FALSE, live |-> a2.live, owner |-> a2.owner]

\* client_sync_players on one frame's delivered messages, then the flush
ClientSyncPlayers(cs, client_id, messages, snapshots) ==
    LET a0 == [mapping |-> cs.mapping, players |-> cs.players, cmds |-> <<>>,
               next |-> cs.next, panic |-> FALSE, live |-> cs.live, owner |-> cs.owner]
        a1 == DrainServerMessages(cs, a0, client_id, messages)
        a2 == DrainNetworkedEntities(cs, a1, snapshots)
        w == LocalApplyAll([world |-> cs.world, panic |-> a2.panic], a2.cmds)
    IN IF w.panic
       THEN [cs EXCEPT !.crashed = TRUE]
       ELSE [mapping |-> a2.mapping, players |-> a2.players, world |-> w.world,
             next |-> a2.next, crashed |-> FALSE, live |-> a2.live, owner |-> a2.owner]

\* Runs while the transport is connected (client.rs:92-98).  The client is
\* its own process; a frame that overlaps a server tick sees a prefix of
\* what has been sent, which is the frame taken between ticks with that prefix.
\* It goes on draining what is in flight when the server process has died.
client_sync_players ==
    /\ phase \in {"pre", "crashed"}
    /\ Followed \in connections
    /\ ~client.crashed
    /\ \E k \in {Len(reliable)}, n \in {Len(unreliable)} :
         /\ k + n > 0
         /\ client' = ClientSyncPlayers(client, Followed, SubSeq(reliable, 1, k),
                                        SubSeq(unreliable, 1, n))
         /\ reliable' = IF client'.crashed THEN reliable
                        ELSE SubSeq(reliable, k + 1, Len(reliable))
         /\ unreliable' = IF client'.crashed THEN unreliable
                          ELSE SubSeq(unreliable, n + 1, Len(unreliable))
    /\ UNCHANGED <<phase, ran, world, next_entity, commands, lobby,
                   bot_id, connections, server_events,
                   removed_projectiles, removed_blocks, recv_command,
                   recv_input, outbox, sync_out, spawned, despawned,
                   notices, inputs_seen, collisions_seen,
                   transport_errors, client_transport, player_input,
                   player_commands, sent_frame, last_frame>>

\* a NetworkedEntities datagram is lost
DropSnapshot ==
    /\ TickBoundary
    /\ unreliable # <<>>
    /\ unreliable' = Tail(unreliable)
    /\ UNCHANGED <<phase, ran, world, next_entity, commands, lobby,
                   bot_id, connections, server_events,
                   removed_projectiles, removed_blocks, recv_command,
                   recv_input, outbox, sync_out, reliable, client,
                   spawned, despawned, notices, inputs_seen,
                   collisions_seen, transport_errors, client_transport,
                   player_input, player_commands, sent_frame, last_frame>>

\* ================================================================= system
Init ==
    /\ phase = "pre"
    /\ ran = {}
    /\ world = (LevelEntity :> LevelBundle)
    /\ next_entity = 1
    /\ commands = <<>>
    /\ lobby = Empty
    /\ bot_id = 0
    /\ connections = {}
    /\ server_events = <<>>
    /\ removed_projectiles = <<>>
    /\ removed_blocks = <<>>
    /\ recv_command = [c \in ClientIds |-> <<>>]
    /\ recv_input = [c \in ClientIds |-> <<>>]
    /\ outbox = [c \in ClientIds |-> <<>>]
    /\ sync_out = <<>>
    /\ reliable = <<>>
    /\ unreliable = <<>>
    /\ client = ClientInit
    /\ spawned = Empty
    /\ despawned = {}
    /\ notices = Empty
    /\ inputs_seen = 0
    /\ collisions_seen = 0
    /\ transport_errors = {}
    /\ client_transport = "connecting"
    /\ player_input = 0
    /\ player_commands = <<>>
    /\ sent_frame = [connected |-> FALSE, raised |-> <<>>, late |-> <<>>, input |-> <<>>,
                     command |-> <<>>]
    /\ last_frame = [messages |-> <<>>, snapshots |-> <<>>, before |-> ClientInit, frames |-> 0]

ServerNext ==
    \/ NetcodeUpdate
    \/ server_update_system
    \/ server_network_sync
    \/ move_players_system
    \/ update_projectiles_system
    \/ projectile_collision_system
    \/ spawn_bot
    \/ bot_autocast
    \/ spawn_solana_blocks
    \/ apply_system_buffers
    \/ projectile_on_removal_system
    \/ solana_block_on_removal_system
    \/ send_packets

Next ==
    \/ ServerNext
    \/ client_sync_players
    \/ DropSnapshot

Spec == Init /\ [][Next]_vars

\* ===================================================== the client alone
\* client_sync_players fed with any messages a peer could put on the two
\* channels: every lifecycle message over a small set of server entities
\* and connection ids, and every well-formed NetworkedEntities
\* (server.rs:381-395 pushes one translation per entity).
MaxLocal == 2
MaxFrame == 2
MaxFrames == 3
ServerEntities == 1 .. 2
CreateCoords == {10}
SnapshotCoords == {0, 20}

CreationTypes == {"PlayerCreate", "SpawnProjectile", "SpawnSolanaBlock"}

ServerMessages ==
    {PlayerCreate(id, e, t) : id \in ClientIds, e \in ServerEntities, t \in CreateCoords}
    \cup {PlayerRemove(id) : id \in ClientIds}
    \cup {SpawnProjectile(e, t) : e \in ServerEntities, t \in CreateCoords}
    \cup {DespawnProjectile(e) : e \in ServerEntities}
    \cup {SpawnSolanaBlock(e, t, slot) : e \in ServerEntities, t \in CreateCoords, slot \in Slots}
    \cup {DespawnSolanaBlock(e) : e \in ServerEntities}

Snapshots ==
    {NetworkedEntities(SetToSeq(S), t) :
        S \in (SUBSET ServerEntities) \ {{}}, t \in SeqsUpTo(SnapshotCoords, Cardinality(ServerEntities))}

WellFormed(networked_entities) ==
    Len(networked_entities.entities) = Len(networked_entities.translations)

Creations(messages) == Cardinality({i \in DOMAIN messages : messages[i].type \in CreationTypes})

ClientFrame ==
    /\ ~client.crashed
    /\ last_frame.frames < MaxFrames
    /\ \E messages \in SeqsUpTo(ServerMessages, MaxFrame),
          snapshots \in SeqsUpTo({n \in Snapshots : WellFormed(n)}, 1) :
         /\ Len(messages) + Len(snapshots) \in 1 .. MaxFrame
         /\ client.next + Creations(messages) <= MaxLocal + 1
         /\ client' = ClientSyncPlayers(client, Followed, messages, snapshots)
         /\ last_frame' = [messages |-> messages, snapshots |-> snapshots, before |-> client,
                          frames |-> last_frame.frames + 1]
    /\ UNCHANGED <<phase, ran, world, next_entity, commands, lobby,
                   bot_id, connections, server_events,
                   removed_projectiles, removed_blocks, recv_command,
                   recv_input, outbox, sync_out, reliable, unreliable,
                   spawned, despawned, notices, inputs_seen,
                   collisions_seen, transport_errors, client_transport,
                   player_input, player_commands, sent_frame>>

SpecClient == Init /\ [][ClientFrame]_vars

\* ============================================ players under lost snapshots
\* The whole program in an environment that only connects, disconnects and
\* sends Input: no Command packet, no bot key, no block timer, no collision.
\* The server ticks for ever (App::run), the client runs a frame whenever
\* it has something to read, and of the snapshots sent infinitely many
\* reach a client frame; any of them may be lost.
SyncScope ==
    /\ bot_id = 0
    /\ collisions_seen = 0
    /\ \A c \in ClientIds : recv_command[c] = <<>>
    /\ \A i \in DOMAIN commands : commands[i].op = "spawn" => commands[i].bundle.kind = "Player"

SnapshotFrame == client_sync_players /\ unreliable # <<>>

NextSync ==
    \/ NetcodeUpdate /\ SyncScope'
    \/ server_update_system
    \/ server_network_sync
    \/ move_players_system
    \/ update_projectiles_system
    \/ projectile_collision_system /\ SyncScope'
    \/ spawn_bot /\ SyncScope'
    \/ bot_autocast
    \/ spawn_solana_blocks /\ SyncScope'
    \/ apply_system_buffers
    \/ projectile_on_removal_system
    \/ solana_block_on_removal_system
    \/ send_packets
    \/ client_sync_players
    \/ DropSnapshot

SpecSync == Init /\ [][NextSync]_vars /\ WF_vars(NextSync) /\ SF_vars(SnapshotFrame)

\* ================================================= projectiles to the end
\* The server alone with peers that connect, disconnect and send Commands,
\* and with the bot key: no Input, no block timer, no collision, and the
\* followed client stays away.  App::run runs the schedule for ever, so the
\* tick loop is weakly fair.
FireScope ==
    /\ collisions_seen = 0
    /\ inputs_seen = 0
    /\ Followed \notin connections
    /\ \A i \in DOMAIN commands :
          commands[i].op = "spawn" => commands[i].bundle.kind # "SolanaSlotBlock"

NextFire ==
    \/ NetcodeUpdate /\ FireScope'
    \/ server_update_system
    \/ server_network_sync
    \/ move_players_system
    \/ update_projectiles_system
    \/ projectile_collision_system /\ FireScope'
    \/ spawn_bot
    \/ bot_autocast
    \/ spawn_solana_blocks /\ FireScope'
    \/ apply_system_buffers
    \/ projectile_on_removal_system
    \/ solana_block_on_removal_system
    \/ send_packets

SpecFire == Init /\ [][NextFire]_vars /\ WF_vars(NextFire)

\* ================================================== faults on the wire
\* SpecFault adds what the peers and the sockets can do wrong: a payload
\* that does not decode on one of the four channels, and an error reported
\* by the transport of either endpoint.  The followed client is the only
\* peer and the server is followed until that client has terminated; no
\* bots, blocks or collisions.
FaultScope ==
    /\ connections \subseteq {Followed}
    /\ client.crashed => phase \in {"pre", "crashed"}
    /\ bot_id = 0
    /\ collisions_seen = 0
    /\ \A i \in DOMAIN commands :
         commands[i].op = "spawn" => commands[i].bundle.kind # "SolanaSlotBlock"

InsertAt(messages, k, message) ==
    SubSeq(messages, 1, k) \o <<message>> \o SubSeq(messages, k + 1, Len(messages))

Holds(messages, message) == \E i \in DOMAIN messages : messages[i] = message

\* a connection's datagram with an undecodable payload is among the
\* messages server_update_system is about to drain (server.rs:322, 359)
UndecodableFromClient ==
    /\ InUpdate("server_update_system")
    /\ \A c \in ClientIds : /\ ~Holds(recv_command[c], UndecodablePayload)
                            /\ ~Holds(recv_input[c], UndecodablePayload)
    /\ \E c \in connections, channel \in {"Command", "Input"} :
         \E k \in 0 .. Len(IF channel = "Command" THEN recv_command[c] ELSE recv_input[c]) :
           /\ recv_command' = IF channel = "Command"
                              THEN [recv_command EXCEPT ![c] = InsertAt(@, k, UndecodablePayload)]
                              ELSE recv_command
           /\ recv_input' = IF channel = "Input"
                            THEN [recv_input EXCEPT ![c] = InsertAt(@, k, UndecodablePayload)]
                            ELSE recv_input
    /\ UNCHANGED <<phase, ran, world, next_entity, commands, lobby,
                   bot_id, connections, server_events,
                   removed_projectiles, removed_blocks, outbox, sync_out,
                   reliable, unreliable, client, spawned, despawned,
                   notices, inputs_seen, collisions_seen,
                   transport_errors, client_transport, player_input,
                   player_commands, sent_frame, last_frame>>

\* an undecodable payload is among the messages the followed client is
\* about to drain (client.rs:168-169, 268-269)
UndecodableFromServer ==
    /\ phase \in {"pre", "crashed"}
    /\ Followed \in connections
    /\ ~client.crashed
    /\ ~Holds(reliable, UndecodableMessage)
    /\ ~Holds(unreliable, UndecodableMessage)
    /\ \E channel \in {"ServerMessages", "NetworkedEntities"} :
         \E k \in 0 .. Len(IF channel = "ServerMessages" THEN reliable ELSE unreliable) :
           /\ reliable' = IF channel = "ServerMessages"
                          THEN InsertAt(reliable, k, UndecodableMessage) ELSE reliable
           /\ unreliable' = IF channel = "NetworkedEntities"
                            THEN InsertAt(unreliable, k, UndecodableMessage) ELSE unreliable
    /\ UNCHANGED <<phase, ran, world, next_entity, commands, lobby,
                   bot_id, connections, server_events,
                   removed_projectiles, removed_blocks, recv_command,
                   recv_input, outbox, sync_out, client, spawned,
                   despawned, notices, inputs_seen, collisions_seen,
                   transport_errors, client_transport, player_input,
                   player_commands, sent_frame, last_frame>>

\* NetcodeServerPlugin's update: the transport fails, a
\* NetcodeTransportError event is written and nothing is received; no
\* system of the server reads the event (server.rs:187-247), the tick goes on
NetcodeUpdateError ==
    /\ TickBoundary
    /\ ~Backlogged
    /\ "server" \notin transport_errors
    /\ transport_errors' = transport_errors \cup {"server"}
    /\ server_events' = <<>>
    /\ recv_command' = [c \in ClientIds |-> <<>>]
    /\ recv_input' = [c \in ClientIds |-> <<>>]
    /\ phase' = "update"
    /\ ran' = {}
    /\ UNCHANGED <<world, next_entity, commands, lobby, bot_id,
                   connections, removed_projectiles, removed_blocks,
                   outbox, sync_out, reliable, unreliable, client,
                   spawned, despawned, notices, inputs_seen,
                   collisions_seen, client_transport, player_input,
                   player_commands, sent_frame, last_frame>>

\* the client's transport writes a NetcodeTransportError event and
\* panic_on_error_system reads it (client.rs:112-117)
panic_on_error_system ==
    /\ TickBoundary
    /\ ~client.crashed
    /\ "client" \notin transport_errors
    /\ transport_errors' = transport_errors \cup {"client"}
    /\ client' = [client EXCEPT !.crashed = TRUE]
    /\ UNCHANGED <<phase, ran, world, next_entity, commands, lobby,
                   bot_id, connections, server_events,
                   removed_projectiles, removed_blocks, recv_command,
                   recv_input, outbox, sync_out, reliable, unreliable,
                   spawned, despawned, notices, inputs_seen,
                   collisions_seen, client_transport, player_input,
                   player_commands, sent_frame, last_frame>>

NextFault ==
    \/ NetcodeUpdate /\ FaultScope'
    \/ server_update_system
    \/ server_network_sync
    \/ move_players_system
    \/ update_projectiles_system
    \/ projectile_collision_system /\ FaultScope'
    \/ spawn_bot /\ FaultScope'
    \/ bot_autocast
    \/ spawn_solana_blocks /\ FaultScope'
    \/ apply_system_buffers
    \/ projectile_on_removal_system
    \/ solana_block_on_removal_system
    \/ send_packets
    \/ client_sync_players
    \/ DropSnapshot
    \/ UndecodableFromClient
    \/ UndecodableFromServer
    \/ NetcodeUpdateError /\ FaultScope'
    \/ panic_on_error_system

SpecFault == Init /\ [][NextFault]_vars

\* ==================================================== the client's sends
\* SpecSend is the sending half of the client's frame.  Input capture is
\* outside client.rs: the camera position and the PlayerCommand events of
\* a frame are picked by the environment.
MaxRaised == 1
CameraCoords == {0, 10}
CastTargets == {10, 20}

\* client_send_input (client.rs:135-146): the camera position goes into
\* PlayerInput, which is serialized and sent on the Input channel
ClientSendInput(camera) == [player_input |-> camera, input |-> <<camera>>]

\* client_send_player_commands (client.rs:148-156): one message on the
\* Command channel per event the reader yields, in the reader's order
RECURSIVE ClientSendPlayerCommands(_)
ClientSendPlayerCommands(events) ==
    IF events = <<>> THEN <<>>
    ELSE <<Head(events)>> \o ClientSendPlayerCommands(Tail(events))

\* distributive_run_if(client_connected) (client.rs:92-98)
ClientConnectedGate(connected) == connected

\* One frame of the client.  Events<PlayerCommand> keeps an event for the
\* frame it is written in and the next one; the reader yields the events
\* it has not seen, oldest first.  early events are written before the
\* send systems run in this frame, late ones after; raised is what was
\* written since the send systems' turn in the frame before.
client_send ==
    \E status \in {"connecting", "connected", "disconnected"}, camera \in CameraCoords,
       early \in SeqsUpTo(CastTargets, MaxRaised), late \in SeqsUpTo(CastTargets, MaxRaised) :
         /\ \/ status = client_transport
            \/ client_transport = "connecting" /\ status = "connected"
            \/ client_transport = "connected" /\ status = "disconnected"
         /\ client_transport' = status
         /\ IF ClientConnectedGate(status = "connected")
            THEN /\ player_input' = ClientSendInput(camera).player_input
                 /\ player_commands' = late
                 /\ sent_frame' = [connected |-> status = "connected",
                                   raised |-> sent_frame.late \o early, late |-> late,
                                   input |-> ClientSendInput(camera).input,
                                   command |-> ClientSendPlayerCommands(player_commands \o early)]
            ELSE /\ player_input' = player_input
                 /\ player_commands' = early \o late
                 /\ sent_frame' = [connected |-> status = "connected",
                                   raised |-> sent_frame.late \o early, late |-> late,
                                   input |-> <<>>, command |-> <<>>]
    /\ UNCHANGED <<phase, ran, world, next_entity, commands, lobby, bot_id,
                   connections, server_events, removed_projectiles,
                   removed_blocks, recv_command, recv_input, outbox,
                   sync_out, reliable, unreliable, client, spawned,
                   despawned, notices, inputs_seen, collisions_seen,
                   transport_errors, last_frame>>

SpecSend == Init /\ [][client_send]_vars

\* ============================================================ properties
Count(counts, message) == IF message \in DOMAIN counts THEN counts[message] ELSE 0

Occurrences(messages, message) ==
    Cardinality({i \in DOMAIN messages : messages[i] = message})

\* the removal notice that names a replicated entity
RemovalNotice(e) ==
    CASE spawned[e].kind = "Player" -> PlayerRemove(spawned[e].id)
      [] spawned[e].kind = "Projectile" -> DespawnProjectile(e)
      [] spawned[e].kind = "SolanaSlotBlock" -> DespawnSolanaBlock(e)

RemovedReplicated ==
    {e \in despawned : spawned[e].kind \in {"Player", "Projectile", "SolanaSlotBlock"}}

RemovedPlayers == {e \in despawned : spawned[e].kind = "Player"}

\* the step in which server_update_system runs to completion, and the flush
ServerUpdateStep ==
    phase = "update" /\ "server_update_system" \notin ran /\ "server_update_system" \in ran'

FlushStep == phase = "update" /\ phase' = "post"

Connecting == {c \in ClientIds : \E i \in DOMAIN server_events : server_events[i] = ClientConnected(c)}

Disconnecting ==
    {c \in ClientIds : \E i \in DOMAIN server_events : server_events[i] = ClientDisconnected(c)}

\* what a step queues for connection c, and the Commands it issues
Sent(c) == SubSeq(outbox'[c], Len(outbox[c]) + 1, Len(outbox'[c]))

NewCommands == SubSeq(commands', Len(commands) + 1, Len(commands'))

Despawns(cmds, entity) == Cardinality({i \in DOMAIN cmds : cmds[i] = CmdDespawn(entity)})

\* ---------------------------------------------------------------- C1
\* C1: at the end of every tick, each replicated entity (Player, Projectile,
\* SolanaSlotBlock) that has been removed from the server world has had
\* exactly one matching removal notice broadcast: PlayerRemove with its
\* connection id, DespawnProjectile or DespawnSolanaBlock with its entity.
RemovalNoticedExactlyOnce ==
    TickBoundary => \A e \in RemovedReplicated : Count(notices, RemovalNotice(e)) = 1

\* a tick ends with a Player, a Projectile and a block all removed
RemovedOneOfEachKind ==
    /\ TickBoundary
    /\ \A kind \in {"Player", "Projectile", "SolanaSlotBlock"} :
         \E e \in RemovedReplicated : spawned[e].kind = kind

\* ---------------------------------------------------------------- C3
\* C3: when server_update_system handles ClientConnected for C, it queues
\* for C a creation message for every replicated entity live at that
\* moment, whatever its category (Player, Projectile, SolanaSlotBlock).
CatchUpCoversEveryCategory ==
    [][ServerUpdateStep =>
         \A c \in Connecting \cap connections : \A e \in Replicated :
            \E i \in DOMAIN Sent(c) :
               Sent(c)[i].type \in CreationTypes /\ Sent(c)[i].entity = e]_vars

\* ---------------------------------------------------------------- C4
\* C4: once the client has processed every reliable message sent to it,
\* neither its NetworkMapping nor its ClientLobby holds an entry for the
\* Player entity of a client that has disconnected.
NoEntryForDisconnected ==
    (TickBoundary /\ Followed \in connections /\ ~client.crashed /\ reliable = <<>>) =>
        \A e \in RemovedPlayers :
            e \notin DOMAIN client.mapping /\ spawned[e].id \notin DOMAIN client.players

\* ---------------------------------------------------------------- C5
DisconnectHandled ==
    ServerUpdateStep =>
        /\ \A c \in Disconnecting :
             /\ c \notin DOMAIN lobby'
             /\ c \in DOMAIN lobby => Despawns(NewCommands, lobby[c]) = 1
             /\ Count(notices', PlayerRemove(c)) = Count(notices, PlayerRemove(c)) + 1
             /\ \A p \in connections : Occurrences(Sent(p), PlayerRemove(c)) = 1
        /\ \A o \in (DOMAIN lobby) \ Disconnecting :
             /\ o \in DOMAIN lobby' /\ lobby'[o] = lobby[o]
             /\ Despawns(NewCommands, lobby[o]) = 0
             /\ \A p \in connections : Occurrences(Sent(p), PlayerRemove(o)) = 0

DisconnectFlushed ==
    FlushStep =>
        /\ \A i \in DOMAIN commands :
             commands[i].op = "despawn" => commands[i].entity \notin DOMAIN world'
        /\ \A e \in Players :
             Despawns(commands, e) = 0 =>
                e \in DOMAIN world' /\ world'[e].kind = "Player" /\ world'[e].id = world[e].id

\* C5: handling ClientDisconnected for C removes C's lobby entry, issues one
\* despawn of the Player entity the entry pointed to (gone from the world
\* when the tick's commands are applied) and broadcasts exactly one
\* PlayerRemove{C}; lobby entries and Player entities of the other
\* connections stay as they were.
DisconnectRemovesOnlyThatPlayer == [][DisconnectHandled /\ DisconnectFlushed]_vars

\* a disconnect has been handled and flushed while another player stays
DisconnectedBesideAnother ==
    /\ phase = "post"
    /\ \E c \in Disconnecting :
         /\ c \notin DOMAIN lobby
         /\ \E e \in RemovedPlayers : spawned[e].id = c
         /\ Count(notices, PlayerRemove(c)) = 1
    /\ \E o \in connections : o \in DOMAIN lobby /\ lobby[o] \in Players

\* ---------------------------------------------------------------- C6
IssuedBotIds == 0 .. (bot_id - 1)

PlayerSpawns(cmds, c) ==
    {i \in DOMAIN cmds : cmds[i].op = "spawn" /\ cmds[i].bundle.kind = "Player"
                         /\ ~cmds[i].bundle.bot /\ cmds[i].bundle.id = c}

PlayerCreates(messages) == {j \in DOMAIN messages : messages[j].type = "PlayerCreate"}

ConnectHandled ==
    ServerUpdateStep =>
        /\ \A c \in Connecting :
             /\ Cardinality(PlayerSpawns(NewCommands, c)) = 1
             /\ \A i \in PlayerSpawns(NewCommands, c) :
                  LET player_entity == NewCommands[i].entity
                  IN /\ player_entity \notin DOMAIN world
                     /\ next_entity <= player_entity /\ player_entity < next_entity'
                     /\ c \notin Disconnecting => c \in DOMAIN lobby' /\ lobby'[c] = player_entity
                     /\ \A p \in connections :
                          /\ Cardinality({j \in PlayerCreates(Sent(p)) : Sent(p)[j].id = c}) = 1
                          /\ \A j \in PlayerCreates(Sent(p)) :
                               Sent(p)[j].id = c => Sent(p)[j].entity = player_entity
        /\ \A p \in connections \ Connecting :
             /\ Cardinality(PlayerCreates(Sent(p))) = Connects(server_events)
             /\ \A j \in DOMAIN Sent(p) : Sent(p)[j].type # "SpawnSolanaBlock"

ConnectFlushed ==
    FlushStep =>
        \A c \in (Connecting \ Disconnecting) \cap DOMAIN lobby :
            /\ lobby[c] \in DOMAIN world'
            /\ {e \in DOMAIN world' : world'[e].kind = "Player" /\ world'[e].id = c} = {lobby[c]}

\* C7: handling ClientConnected for C issues exactly one spawn of a fresh
\* Player entity owned by C (live once the tick's commands are applied),
\* records it as lobby[C] and queues exactly one PlayerCreate{C, that entity}
\* for every connected peer, C included; a peer that was already connected
\* is queued no creation message beyond one PlayerCreate per connection
\* accepted in the tick.
ConnectCreatesOnePlayer == [][ConnectHandled /\ ConnectFlushed]_vars

\* a connection has been handled and flushed while an earlier peer is connected
ConnectedBesideAnother ==
    /\ phase = "post"
    /\ \E c \in Connecting \cap connections :
         /\ c \in DOMAIN lobby /\ lobby[c] \in Players
         /\ \E p \in connections \ Connecting :
              /\ p \in DOMAIN lobby /\ lobby[p] \in Players
              /\ \E j \in DOMAIN outbox[p] : outbox[p][j] = PlayerCreate(c, lobby[c], spawned[lobby[c]].translation)

\* ------------------------------------------------- the client's frames
\* the replication state a frame leaves, without the history fields
Core(cs) ==
    [mapping |-> cs.mapping, players |-> cs.players, world |-> cs.world,
     next |-> cs.next, crashed |-> cs.crashed]

FrameMessages == last_frame.messages

\* the client after the first j reliable messages of the latest frame
AfterMessage(j) ==
    IF j = Len(FrameMessages) THEN client
    ELSE ClientSyncPlayers(last_frame.before, Followed, SubSeq(FrameMessages, 1, j), <<>>)

IsCreation(message) == message.type \in CreationTypes

CreationsUpTo(j) == Cardinality({i \in 1 .. j : IsCreation(FrameMessages[i])})

NoRemovalWithin(i, j) == \A k \in (i + 1) .. (j - 1) : ~IsRemovalNotice(FrameMessages[k])

\* message j creates a server entity that an earlier creation already
\* mapped, with no removal in between
Recreates(j) ==
    /\ IsCreation(FrameMessages[j])
    /\ \/ \E i \in 1 .. (j - 1) :
            /\ IsCreation(FrameMessages[i])
            /\ FrameMessages[i].entity = FrameMessages[j].entity
            /\ NoRemovalWithin(i, j)
       \/ /\ FrameMessages[j].entity \in DOMAIN last_frame.before.mapping
          /\ NoRemovalWithin(0, j)

\* ---------------------------------------------------------------- C2
\* C2: a server entity is a key of the client's NetworkMapping only if a
\* creation message carrying it was received and no matching removal
\* (PlayerRemove for the connection id of that creation, DespawnProjectile
\* or DespawnSolanaBlock for the entity) has been received since.
MappedOnlyWhileCreated == ~client.crashed => DOMAIN client.mapping \subseteq client.live

\* ---------------------------------------------------------------- C8
\* C8: when a creation message names a server entity that an earlier
\* creation already mapped and no removal came in between, the
\* NetworkMapping afterwards holds for that entity the local entity the
\* later message allocated.
SecondCreationOverwrites ==
    \A j \in DOMAIN FrameMessages :
        (Recreates(j) /\ ~AfterMessage(j).crashed) =>
            /\ FrameMessages[j].entity \in DOMAIN AfterMessage(j).mapping
            /\ AfterMessage(j).mapping[FrameMessages[j].entity]
                 = last_frame.before.next + CreationsUpTo(j) - 1

\* a frame ended with the second of two creations for one server entity
CreatedTwiceInFrame ==
    /\ Len(FrameMessages) = 2
    /\ Recreates(2)
    /\ IsCreation(FrameMessages[1])
    /\ ~client.crashed
    /\ client.mapping[FrameMessages[2].entity] = last_frame.before.next + 1
    /\ last_frame.before.next \in DOMAIN client.world

\* ---------------------------------------------------------------- C9
Unknown(cs, message) ==
    IF message.type = "PlayerRemove" THEN message.id \notin DOMAIN cs.players
    ELSE message.entity \notin DOMAIN cs.mapping

Removals == {message \in ServerMessages : IsRemovalNotice(message)}

\* C9: a frame of removal messages that name nothing the client knows
\* raises no error and leaves NetworkMapping, ClientLobby and the local
\* entities as they were; a removal message applied twice, in one frame or
\* in two, leaves what applying it once leaves.
DespawnIsIdempotent ==
    /\ ( /\ FrameMessages # <<>>
         /\ last_frame.snapshots = <<>>
         /\ \A i \in DOMAIN FrameMessages :
              IsRemovalNotice(FrameMessages[i]) /\ Unknown(last_frame.before, FrameMessages[i]) )
       => Core(client) = Core(last_frame.before)
    /\ ( /\ Len(FrameMessages) = 2
         /\ FrameMessages[1] = FrameMessages[2]
         /\ IsRemovalNotice(FrameMessages[1]) )
       => Core(client) = Core(ClientSyncPlayers(last_frame.before, Followed,
                                                <<FrameMessages[1]>>, last_frame.snapshots))
    /\ \A d \in Removals :
         LET once == ClientSyncPlayers(client, Followed, <<d>>, <<>>)
         IN ~once.crashed => Core(ClientSyncPlayers(once, Followed, <<d>>, <<>>)) = Core(once)

\* a frame applied the same DespawnProjectile twice to a mapped entity
DespawnedTwiceInFrame ==
    /\ Len(FrameMessages) = 2
    /\ FrameMessages[1] = FrameMessages[2]
    /\ FrameMessages[1].type = "DespawnProjectile"
    /\ FrameMessages[1].entity \in DOMAIN last_frame.before.mapping
    /\ ~client.crashed
    /\ FrameMessages[1].entity \notin DOMAIN client.mapping

\* --------------------------------------------------------------- C10
\* the client after the reliable messages of the latest frame alone
BeforeSnapshot == ClientSyncPlayers(last_frame.before, Followed, FrameMessages, <<>>)

\* pairs of the snapshot whose identifier is mapped to local entity l
Hits(networked_entities, mapping, l) ==
    {i \in DOMAIN networked_entities.entities :
        /\ networked_entities.entities[i] \in DOMAIN mapping
        /\ mapping[networked_entities.entities[i]] = l}

\* C10: applying a NetworkedEntities message creates and destroys no local
\* entity and leaves NetworkMapping and ClientLobby as they were; a local
\* entity takes the position paired with the identifier mapped to it, and
\* every other local entity keeps its position.
SnapshotOnlyMoves ==
    (last_frame.snapshots # <<>> /\ ~BeforeSnapshot.crashed) =>
        LET networked_entities == last_frame.snapshots[1]
        IN /\ ~client.crashed
           /\ client.mapping = BeforeSnapshot.mapping
           /\ client.players = BeforeSnapshot.players
           /\ client.next = BeforeSnapshot.next
           /\ DOMAIN client.world = DOMAIN BeforeSnapshot.world
           /\ \A l \in DOMAIN client.world :
                /\ client.world[l].kind = BeforeSnapshot.world[l].kind
                /\ client.world[l].controlled = BeforeSnapshot.world[l].controlled
                /\ IF Hits(networked_entities, client.mapping, l) = {}
                   THEN client.world[l].translation = BeforeSnapshot.world[l].translation
                   ELSE \A i \in Hits(networked_entities, client.mapping, l) :
                          client.world[l].translation = networked_entities.translations[i]

\* a snapshot with a mapped and an unmapped identifier moved the mapped one
SnapshotMovedMappedOnly ==
    /\ last_frame.snapshots # <<>>
    /\ ~client.crashed
    /\ LET networked_entities == last_frame.snapshots[1]
       IN \E i, k \in DOMAIN networked_entities.entities :
            /\ networked_entities.entities[k] \notin DOMAIN client.mapping
            /\ networked_entities.entities[i] \in DOMAIN client.mapping
            /\ networked_entities.translations[i] \notin CreateCoords
            /\ client.world[client.mapping[networked_entities.entities[i]]].translation
                 = networked_entities.translations[i]

\* ---------------------------------------------------------------- C11
\* every mapped entity the server still has shows the server's position
Converged ==
    \A e \in DOMAIN client.mapping \cap Replicated :
        /\ client.mapping[e] \in DOMAIN client.world
        /\ client.world[client.mapping[e]].translation = world[e].translation

\* the frame the client would have had with every snapshot of it lost
WithoutSnapshots == ClientSyncPlayers(client, Followed, reliable, <<>>)

\* C11: whichever snapshots are lost, a client frame leaves the same
\* entities, NetworkMapping and ClientLobby as the frame without its
\* snapshots would (a lost snapshot creates, duplicates and destroys
\* nothing); and while the server keeps running with the client connected
\* and snapshots keep arriving, from some point on every mapped entity the
\* server still has is shown at the server's position.
LostSnapshotsOnlyDelay ==
    /\ [][client' # client =>
            /\ client'.mapping = WithoutSnapshots.mapping
            /\ client'.players = WithoutSnapshots.players
            /\ DOMAIN client'.world = DOMAIN WithoutSnapshots.world
            /\ client'.crashed = WithoutSnapshots.crashed]_vars
    /\ (<>[](phase # "crashed" /\ Followed \in connections)) => <>[]Converged

\* Between ticks with the client connected, the reliable queue still unread
\* and the snapshot gone: send_packets queued both and a frame would have
\* taken both, so the snapshot was lost; and the client shows its own
\* player where the server no longer has it.
SnapshotLostWhileStale ==
    /\ TickBoundary
    /\ Followed \in connections
    /\ reliable # <<>>
    /\ unreliable = <<>>
    /\ \E e \in DOMAIN client.mapping \cap Players :
         /\ world[e].id = Followed
         /\ client.world[client.mapping[e]].translation # world[e].translation

\* ---------------------------------------------------------------- C12
\* C12: no client frame changes the position of a local entity tagged
\* ControlledPlayer (the Player created for the client's own connection
\* id): snapshots leave it where it is.
ControlledPlayerKeepsPosition ==
    [][\A l \in DOMAIN client.world \cap DOMAIN client'.world :
          client.world[l].controlled =>
             client'.world[l].translation = client.world[l].translation]_vars

\* ---------------------------------------------------------------- C13
\* the Projectile spawns among some Commands
FireballSpawns(cmds) ==
    {i \in DOMAIN cmds : cmds[i].op = "spawn" /\ cmds[i].bundle.kind = "Projectile"}

SpawnProjectiles(messages) == {j \in DOMAIN messages : messages[j].type = "SpawnProjectile"}

\* C13: when server_update_system drains the Command channel, it spawns
\* one Projectile per BasicAttack received from a connected client and
\* sends every connected client one SpawnProjectile per BasicAttack, each
\* spawned Projectile being announced once with its own identifier;
\* clients whose connection was accepted in the same tick included.
BasicAttackSpawnsOneProjectile ==
    [][ServerUpdateStep =>
         LET received == SumLen(recv_command, connections)
         IN /\ Cardinality(FireballSpawns(NewCommands)) = received
            /\ \A c \in connections :
                  /\ Cardinality(SpawnProjectiles(Sent(c))) = received
                  /\ \A i \in FireballSpawns(NewCommands) :
                        Occurrences(Sent(c), SpawnProjectile(NewCommands[i].entity,
                                        NewCommands[i].bundle.translation)) = 1]_vars

\* ---------------------------------------------------------------- C14
\* a step announces each Projectile it spawns once, to every connection,
\* and announces no other
SpawnsAnnounced ==
    \A c \in connections :
       /\ Cardinality(SpawnProjectiles(Sent(c))) = Cardinality(FireballSpawns(NewCommands))
       /\ \A i \in FireballSpawns(NewCommands) :
             Occurrences(Sent(c), SpawnProjectile(NewCommands[i].entity,
                                                  NewCommands[i].bundle.translation)) = 1

\* the step that reads RemovedComponents<Projectile> sends every connection
\* one DespawnProjectile per removed Projectile
RemovalsAnnounced ==
    removed_projectiles # <<>> /\ removed_projectiles' = <<>> =>
       \A c \in connections : \A i \in DOMAIN removed_projectiles :
          Occurrences(Sent(c), DespawnProjectile(removed_projectiles[i])) = 1

\* C14: every step that spawns Projectiles (BasicAttack or bot autocast)
\* sends every connection one SpawnProjectile per spawned entity;
\* DespawnProjectile is sent to every connection, is broadcast at most once
\* per identifier and only for a Projectile that
\* was spawned and has been destroyed, and at the end of the tick of its
\* destruction exactly once; and while the server runs, every Projectile
\* is eventually destroyed.
ProjectileLivesOnce ==
    /\ [][SpawnsAnnounced /\ RemovalsAnnounced]_vars
    /\ [](\A e \in Entities :
            /\ Count(notices, DespawnProjectile(e)) <= 1
            /\ Count(notices, DespawnProjectile(e)) = 1 =>
                  e \in despawned /\ spawned[e].kind = "Projectile"
            /\ TickBoundary /\ e \in despawned /\ spawned[e].kind = "Projectile" =>
                  Count(notices, DespawnProjectile(e)) = 1)
    /\ \A e \in Entities : (e \in Projectiles) ~> (e \notin DOMAIN world \/ phase = "crashed")

\* a tick ends with a Projectile destroyed on its timer and its notice
\* broadcast once while a peer is connected
ProjectileExpiredAndNoticed ==
    /\ TickBoundary
    /\ connections # {}
    /\ \E e \in despawned :
         /\ spawned[e].kind = "Projectile"
         /\ Count(notices, DespawnProjectile(e)) = 1

\* ---------------------------------------------------------------- C15
\* the block of a collision event that pairs a Projectile with a block
BlockHit(event) ==
    IF IsProjectile(event.entity1) /\ IsSolanaSlotBlock(event.entity2) THEN {event.entity2}
    ELSE IF IsSolanaSlotBlock(event.entity1) /\ IsProjectile(event.entity2) THEN {event.entity1}
    ELSE {}

\* C15: for every collision-start event the world admits,
\* projectile_collision_system despawns the block if the event pairs a
\* Projectile with a SolanaSlotBlock, whichever comes first, and despawns
\* nothing for any other pair; and every block destroyed has had its
\* DespawnSolanaBlock broadcast by the end of the tick.
CollisionDestroysBlockEitherOrder ==
    /\ \A event \in CollisionEvents :
          event.started =>
             \A e \in DOMAIN world :
                Despawns(OnCollision(<<>>, event), e) = IF e \in BlockHit(event) THEN 1 ELSE 0
    /\ TickBoundary =>
          \A e \in despawned :
             spawned[e].kind = "SolanaSlotBlock" => Count(notices, DespawnSolanaBlock(e)) = 1

\* ---------------------------------------------------------------- C16
InSnapshot(networked_entities, X) ==
    \E i \in DOMAIN networked_entities.entities : networked_entities.entities[i] = X

SnapshotAt(networked_entities, X) ==
    networked_entities.translations[
        CHOOSE i \in DOMAIN networked_entities.entities : networked_entities.entities[i] = X]

\* the identifiers whose mapping a removal message takes away in state cs
DespawnFor(cs, message) ==
    IF message.type \in {"DespawnProjectile", "DespawnSolanaBlock"} THEN {message.entity}
    ELSE IF message.type = "PlayerRemove" /\ message.id \in DOMAIN cs.players
    THEN {cs.players[message.id].server_entity}
    ELSE {}

\* C16: in a frame that delivers one reliable message and one snapshot,
\* the message is handled first.  If it creates X and the snapshot holds X,
\* the frame ends with X mapped to the entity just created and that entity
\* at the snapshot's position.  If it removes X and the snapshot holds X,
\* the frame ends with X unmapped and the only local entities that moved
\* are those mapped from other identifiers of the snapshot.
ReliableBeforeSnapshot ==
    (~client.crashed /\ Len(last_frame.messages) = 1 /\ Len(last_frame.snapshots) = 1) =>
        LET m == last_frame.messages[1]
            n == last_frame.snapshots[1]
            before == last_frame.before
        IN /\ IsCreation(m) /\ InSnapshot(n, m.entity) =>
                /\ m.entity \in DOMAIN client.mapping
                /\ client.mapping[m.entity] = before.next
                /\ before.next \in DOMAIN client.world
                /\ client.world[before.next].translation = SnapshotAt(n, m.entity)
           /\ \A X \in DespawnFor(before, m) :
                InSnapshot(n, X) =>
                   /\ X \notin DOMAIN client.mapping
                   /\ \A l \in DOMAIN before.world \cap DOMAIN client.world :
                         client.world[l].translation # before.world[l].translation =>
                            \E Y \in DOMAIN client.mapping :
                               /\ Y # X
                               /\ client.mapping[Y] = l
                               /\ InSnapshot(n, Y)
                               /\ client.world[l].translation = SnapshotAt(n, Y)

\* a frame created X at one position and its snapshot put X at another
CreatedAndPlacedInFrame ==
    /\ ~client.crashed
    /\ Len(last_frame.messages) = 1
    /\ Len(last_frame.snapshots) = 1
    /\ IsCreation(last_frame.messages[1])
    /\ InSnapshot(last_frame.snapshots[1], last_frame.messages[1].entity)
    /\ SnapshotAt(last_frame.snapshots[1], last_frame.messages[1].entity)
          # last_frame.messages[1].translation
    /\ client.world[client.mapping[last_frame.messages[1].entity]].translation
          = SnapshotAt(last_frame.snapshots[1], last_frame.messages[1].entity)

\* ---------------------------------------------------------------- C17
\* the PlayerInput inserts for entity e among some Commands, and the last
InputInserts(cmds, e) == {i \in DOMAIN cmds : cmds[i].op = "insert" /\ cmds[i].entity = e}

LastInsert(cmds, e) ==
    cmds[CHOOSE i \in InputInserts(cmds, e) : \A j \in InputInserts(cmds, e) : j <= i].input

MoveStep == InUpdate("move_players_system") /\ "move_players_system" \in ran'

\* C17: server_update_system queues one PlayerInput insert per Input
\* drained, on the sender's Player entity, the last one carrying the last
\* Input; a peer that sent none gets none.  The flush leaves each Player
\* with the input of the last insert queued for it and every other Player
\* with the input it had, and move_players_system puts each Player at its
\* input's position.  For an id with no lobby entry OnInput changes nothing.
LastInputWins ==
    [][/\ ServerUpdateStep =>
            \A c \in connections \cap DOMAIN lobby' :
               /\ Cardinality(InputInserts(NewCommands, lobby'[c])) = Len(recv_input[c])
               /\ recv_input[c] # <<>> =>
                     LastInsert(NewCommands, lobby'[c]) = recv_input[c][Len(recv_input[c])]
       /\ FlushStep =>
            \A e \in DOMAIN world' :
               world'[e].kind = "Player" =>
                  IF InputInserts(commands, e) # {}
                  THEN world'[e].has_input /\ world'[e].input = LastInsert(commands, e)
                  ELSE e \in DOMAIN world => world'[e].input = world[e].input
       /\ MoveStep =>
            \A e \in Players : world[e].has_input => world'[e].translation = world[e].input
       /\ \A c \in ClientIds \ DOMAIN lobby : \A input \in InputCoords :
            LET acc == [lobby |-> lobby, commands |-> commands, out |-> <<>>,
                        next |-> next_entity, panic |-> FALSE]
            IN OnInput(acc, c, input) = acc]_vars

\* server_update_system has drained two different Inputs of one peer
TwoInputsQueued ==
    \E i, j \in DOMAIN commands :
       /\ i < j
       /\ commands[i].op = "insert"
       /\ commands[j].op = "insert"
       /\ commands[i].entity = commands[j].entity
       /\ commands[i].input # commands[j].input

\* ---------------------------------------------------------------- C18
\* C18: whatever get_epoch_info() answers when spawn_solana_blocks runs,
\* the tick goes on: the system completes, the server stays in the Update
\* stage, and a failed query spawns no block.
RpcFailureIsNotFatal ==
    [][InUpdate("spawn_solana_blocks") /\ ~MoveStep =>
         /\ phase' = "update"
         /\ "spawn_solana_blocks" \in ran']_vars

\* ---------------------------------------------------------------- C19
\* messages ahead of the first undecodable one
Ahead(messages, undecodable) ==
    IF Holds(messages, undecodable)
    THEN (CHOOSE i \in DOMAIN messages :
            messages[i] = undecodable /\ \A j \in 1 .. (i - 1) : messages[j] # undecodable) - 1
    ELSE Len(messages)

\* per connection, the Commands and Inputs the drain can reach
DecodedCommands ==
    [c \in ClientIds |-> SubSeq(recv_command[c], 1, Ahead(recv_command[c], UndecodablePayload))]

DecodedInputs ==
    [c \in ClientIds |->
        IF Holds(recv_command[c], UndecodablePayload) THEN <<>>
        ELSE SubSeq(recv_input[c], 1, Ahead(recv_input[c], UndecodablePayload))]

UndecodableAtServer ==
    \E c \in connections : \/ Holds(recv_command[c], UndecodablePayload)
                           \/ Holds(recv_input[c], UndecodablePayload)

UndecodableAtClient ==
    /\ Followed \in connections
    /\ Holds(reliable, UndecodableMessage) \/ Holds(unreliable, UndecodableMessage)

\* server_update_system runs, to its end or to a panic
ServerDrain ==
    InUpdate("server_update_system") /\ (phase' = "crashed" \/ "server_update_system" \in ran')

\* C19: a message that does not decode is fatal to the process that
\* receives it.  The server run of server_update_system that meets an
\* undecodable Command or Input ends the server, having handled no more
\* BasicAttacks and Inputs than were queued ahead of it, and a dead server
\* changes nothing any more; the client frame that meets an undecodable
\* ServerMessages or NetworkedEntities message ends the client with
\* nothing of the frame applied, and a dead client changes nothing any more.
UndecodableIsFatal ==
    /\ [][ServerDrain /\ UndecodableAtServer =>
            /\ phase' = "crashed"
            /\ Cardinality(FireballSpawns(NewCommands)) <= SumLen(DecodedCommands, connections)
            /\ Cardinality({i \in DOMAIN NewCommands : NewCommands[i].op = "insert"})
                 <= SumLen(DecodedInputs, connections)]_vars
    /\ [][phase = "crashed" => UNCHANGED serverVars]_vars
    /\ [][UndecodableAtClient /\ client' # client =>
            client' = [client EXCEPT !.crashed = TRUE]]_vars
    /\ [][client.crashed => client' = client]_vars

\* both processes have died on an undecodable message: the server with a
\* decodable message still queued behind the undecodable one, the client
\* with the undecodable message still at hand
BothDiedOnUndecodable ==
    /\ phase = "crashed"
    /\ "spawn_solana_blocks" \in ran
    /\ \E c \in connections :
         \/ /\ Holds(recv_command[c], UndecodablePayload)
            /\ Ahead(recv_command[c], UndecodablePayload) + 1 < Len(recv_command[c]) + Len(recv_input[c])
         \/ /\ Holds(recv_input[c], UndecodablePayload)
            /\ Ahead(recv_input[c], UndecodablePayload) + 1 < Len(recv_input[c])
    /\ client.crashed
    /\ transport_errors = {}
    /\ UndecodableAtClient

\* ---------------------------------------------------------------- C20
\* C20: an error reported by the transport ends the process it is
\* reported to, the client as well as the server: the step in which an
\* endpoint's transport reports an error leaves that endpoint terminated.
TransportErrorIsFatal ==
    [][/\ "client" \in transport_errors' \ transport_errors => client'.crashed
       /\ "server" \in transport_errors' \ transport_errors => phase' = "crashed"]_vars

NetworkSyncStep == InUpdate("server_network_sync") /\ "server_network_sync" \in ran'

\* C22: every server tick that runs to its end broadcasts exactly one
\* NetworkedEntities snapshot.  Its entity list holds each Player,
\* Projectile and SolanaSlotBlock live when server_network_sync builds it
\* once and nothing else, and translations[i] is the position entities[i]
\* has at that moment; the followed connection is handed that snapshot.
OneSnapshotOfTheLivePerTick ==
    /\ [][NetworkSyncStep =>
            /\ Len(sync_out') = 1
            /\ LET n == sync_out'[1]
               IN /\ {n.entities[i] : i \in DOMAIN n.entities} = Replicated
                  /\ Len(n.entities) = Cardinality(Replicated)
                  /\ Len(n.translations) = Len(n.entities)
                  /\ \A i \in DOMAIN n.entities :
                       n.translations[i] = world[n.entities[i]].translation]_vars
    /\ [][~NetworkSyncStep /\ phase' # "pre" /\ phase' # "crashed" /\ phase # "pre" =>
            sync_out' = sync_out]_vars
    /\ [][phase = "post" /\ phase' = "pre" =>
            /\ Len(sync_out) = 1
            /\ Followed \in connections => unreliable' = sync_out]_vars

\* a snapshot of a Player that has moved off its spawn point and of a
\* second replicated entity
SnapshotOfMovedPlayerAndAnother ==
    /\ phase = "post"
    /\ Len(sync_out) = 1
    /\ Len(sync_out[1].entities) >= 2
    /\ \E i \in DOMAIN sync_out[1].entities :
         LET e == sync_out[1].entities[i]
         IN /\ e \in Players
            /\ sync_out[1].translations[i] # spawned[e].translation

\* ---------------------------------------------------------------- C23
BlockSpawns(cmds) ==
    {i \in DOMAIN cmds : cmds[i].op = "spawn" /\ cmds[i].bundle.kind = "SolanaSlotBlock"}

SpawnSolanaBlockMessages(messages) ==
    {j \in DOMAIN messages : messages[j].type = "SpawnSolanaBlock"}

SolanaBlocksStep == InUpdate("spawn_solana_blocks") /\ "spawn_solana_blocks" \in ran'

\* C23: a run of spawn_solana_blocks in which the timer has finished and
\* the source has returned a slot creates exactly one SolanaSlotBlock
\* entity for the one enabled source, tagged with that slot, and queues
\* for every connection exactly one SpawnSolanaBlock with the entity's
\* identifier and the same slot; a run in which the timer has not
\* finished, and every other step, creates no SolanaSlotBlock and sends
\* no SpawnSolanaBlock.
OneBlockPerFiring ==
    /\ [][SolanaBlocksStep =>
            /\ Cardinality(BlockSpawns(NewCommands)) <= 1
            /\ \A i \in DOMAIN NewCommands : i \in BlockSpawns(NewCommands)
            /\ \A i \in BlockSpawns(NewCommands) :
                 /\ NewCommands[i].entity = next_entity
                 /\ NewCommands[i].entity \notin DOMAIN spawned
                 /\ NewCommands[i].bundle.slot \in Slots
                 /\ \A c \in connections :
                      Sent(c) = <<SpawnSolanaBlock(NewCommands[i].entity, BlockSpawnX,
                                                   NewCommands[i].bundle.slot)>>
            /\ NewCommands = <<>> => \A c \in ClientIds : Sent(c) = <<>>]_vars
    /\ [][~SolanaBlocksStep /\ phase = "update" /\ phase' = "update" =>
            /\ Len(commands') >= Len(commands)
            /\ BlockSpawns(NewCommands) = {}
            /\ \A c \in ClientIds : Len(outbox'[c]) >= Len(outbox[c])
                                    /\ SpawnSolanaBlockMessages(Sent(c)) = {}]_vars
    /\ [][phase # "update" \/ phase' # "update" =>
            \A e \in DOMAIN spawned' \ DOMAIN spawned :
               spawned'[e].kind = "SolanaSlotBlock" =>
                 \E i \in BlockSpawns(commands) : commands[i] = CmdSpawn(e, spawned'[e])]_vars

\* the timer has fired with a peer connected: the block is queued to be
\* spawned and its announcement is queued for the peer
BlockQueuedAndAnnounced ==
    /\ phase = "update"
    /\ connections # {}
    /\ \E i \in BlockSpawns(commands) : \A c \in connections :
         outbox[c] # <<>>
         /\ outbox[c][Len(outbox[c])] = SpawnSolanaBlock(commands[i].entity, BlockSpawnX,
                                                         commands[i].bundle.slot)
         /\ "server_update_system" \notin ran

\* ---------------------------------------------------------------- C24
\* the followed client has processed every ServerMessages message sent so far
CaughtUp ==
    /\ TickBoundary
    /\ Followed \in connections
    /\ ~client.crashed
    /\ reliable = <<>>

\* C24: once the client has processed every reliable message sent so far,
\* every key of its NetworkMapping is a Player, Projectile or
\* SolanaSlotBlock that is live on the server.
NoGhostEntries == CaughtUp => DOMAIN client.mapping \subseteq Replicated

\* ---------------------------------------------------------------- C25
Mapped(cs) == {cs.mapping[k] : k \in DOMAIN cs.mapping}

\* C25: on the client, every local entity that a PlayerCreate,
\* SpawnProjectile or SpawnSolanaBlock allocated and that has not been
\* destroyed is the value of some NetworkMapping entry.
LocalEntitiesAreMapped == ~client.crashed => DOMAIN client.world \subseteq Mapped(client)

\* ---------------------------------------------------------------- C26
\* C26: on the client, for every ClientLobby entry id -> (client_entity,
\* server_entity) the NetworkMapping maps server_entity to client_entity.
LobbyAgreesWithMapping ==
    ~client.crashed =>
        \A id \in DOMAIN client.players :
           /\ client.players[id].server_entity \in DOMAIN client.mapping
           /\ client.mapping[client.players[id].server_entity] = client.players[id].client_entity

\* ---------------------------------------------------------------- C27
\* C27: on the client, every value of the NetworkMapping is a local
\* entity that has not been destroyed and no two server identifiers map
\* to one local entity; a frame's snapshots never end the client by
\* addressing a destroyed entity.
MappingValuesLiveAndDistinct ==
    /\ ~client.crashed =>
         /\ Mapped(client) \subseteq DOMAIN client.world
         /\ \A j, k \in DOMAIN client.mapping : client.mapping[j] = client.mapping[k] => j = k
    /\ [][~client.crashed /\ last_frame'.frames > last_frame.frames /\ client'.crashed =>
            ClientSyncPlayers(client, Followed, last_frame'.messages, <<>>).crashed]_vars

\* a frame destroyed a mapped entity and carried a snapshot that still
\* lists its identifier, beside an entity that stays mapped
SnapshotNamesDestroyed ==
    /\ ~client.crashed
    /\ client.mapping # Empty
    /\ last_frame.snapshots # <<>>
    /\ \E e \in DOMAIN last_frame.before.mapping :
         /\ e \notin DOMAIN client.mapping
         /\ last_frame.before.mapping[e] \notin DOMAIN client.world
         /\ \E i \in DOMAIN last_frame.snapshots[1].entities :
              last_frame.snapshots[1].entities[i] = e

\* ---------------------------------------------------------------- C28
\* C28: as long as no Input message has reached the server, the Player of
\* every connected client stands where its PlayerCreate said it was spawned.
SpawnPositionKeptUntilInput ==
    inputs_seen = 0 =>
        \A e \in Players : ~world[e].bot => world[e].translation = spawned[e].translation
====
